---- MODULE Spec2Model ----
(***************************************************************************)
(* Entity lifecycle and cooperative scheduling of the !~ATH interpreter    *)
(* (src/python-interpreter/untildeath/entities.py, interpreter.py).        *)
(*                                                                         *)
(* The asyncio event loop is a queue of callbacks (variable ready) that    *)
(* run one at a time in the order they were scheduled.  One action is one  *)
(* callback: one run of one task between two suspension points; a task     *)
(* that runs user statements holds the loop (variable running) and runs    *)
(* them one action each.  The user program is not fixed: a task that holds *)
(* the loop executes any statement the bounds still allow.  What happens   *)
(* outside the interpreter (a timer elapses, a process exits) is seen by   *)
(* the loop between two of its iterations.                                 *)
(***************************************************************************)
EXTENDS Integers, Sequences, FiniteSets, TLC

\* ---------------------------------------------------------------- bounds
MaxEnt   == 5      \* entity objects ever constructed (THIS included)
MaxTask  == 5      \* asyncio tasks ever created (the run() task included)
MaxStmts == 5      \* statements the whole program executes
MaxDepth == 2      \* nesting of ATTEMPT / rite-call frames inside one task
\* the programs that update a shared variable from two branches
CounterEnt   == 6  \* THIS, two branches, three timers
CounterTask  == 9  \* run(), two branches, three timers, three EXECUTE clauses
CounterStmts == 11
\* module loading
MaxNest     == 5   \* evaluators nested in one another (the main one included)
MaxImports  == 2   \* top-level watcher imports in one file
MaxModStmts == 2   \* statements other than watcher imports, all files together
MaxScopes   == 3   \* Scope objects (the global scope included)

EntIds  == 1..(IF MaxEnt > CounterEnt THEN MaxEnt ELSE CounterEnt)
TaskIds == 1..(IF MaxTask > CounterTask THEN MaxTask ELSE CounterTask)
None    == 0
MainTask == 1

UserNames == {"A", "B", "L", "R", "W"}
Names     == {"THIS"} \cup UserNames
\* RuntimeError, CondemnError, BequeathError (errors.py 31-46)
ErrKinds  == {"Runtime", "Condemn", "Bequeath"}
\* and DebuggerQuitException (errors.py 49-51), raised by execute (128-138)
Signals   == ErrKinds \cup {"Quit"}

\* The statements a program is made of take their operands from these sets.
\* import <kind> <name>(...), the third component FALSE when the arguments
\* are rejected (a duration below 1ms, a wrong number or type of arguments)
ImportForms == {<<"Timer", "A", TRUE>>, <<"Process", "A", TRUE>>,
                <<"Watcher", "L", TRUE>>, <<"Connection", "L", TRUE>>,
                <<"Timer", "A", FALSE>>, <<"Watcher", "L", FALSE>>}
\* bifurcate <src>[<l>, <r>]
BifurcateForms == {<<"THIS", "L", "R">>, <<"A", "L", "R">>}
\* X.DIE() and [X, Y].DIE()
DieTargets == {<<"THIS">>, <<"A">>, <<"L">>, <<"L", "R">>}

VARIABLES
  \* --- Entity objects (entities.py)
  entKind,        \* "none" until constructed, then the class of the object
  entName,        \* Entity.name
  entDead,        \* Entity._dead
  deathEvent,     \* Entity._death_event is set
  waiters,        \* Entity._death_event._waiters, in the order of the waits
  entTask,        \* Entity._task (None or a task)
  entOp,          \* CompositeEntity.op
  entKids,        \* CompositeEntity.entities
  complete,       \* BranchEntity._complete is set
  innerWaits,     \* the wait_for_death tasks a composite's start() created
  orphans,        \* history: branch tasks whose entity was killed as they were suspended
  \* --- Interpreter fields (interpreter.py)
  entities,       \* Interpreter.entities: name -> entity
  regOrder,       \* the keys of Interpreter.entities in insertion order
  branch_entities,\* Interpreter.branch_entities
  replacedBy,     \* history: the statement that took the entity's registry entry
  redied,         \* history: entities a DIE statement named when already dead
  pending_tasks,  \* Interpreter._pending_tasks
  gathered,       \* the tasks handed to asyncio.gather in run()'s finally
  gpending,       \* those of them whose completion gather has not yet seen
  \* --- asyncio tasks
  taskKind,       \* "none", "main", "start", "composite", "branch", "exec"
  pc,             \* where the task's coroutine is
  taskEnt,        \* the entity the task hosts / serves / awaits
  taskJoin,       \* the EXECUTE task a wait-mode loop is awaiting
  waitsOn,        \* the entity whose death a wait-mode loop is awaiting
  taskParent,     \* for an EXECUTE task: the task that awaits it
  taskCancels,    \* number of Task.cancel() requests received
  taskErr,        \* exception the task (or run()) ended with / carries
  errOrigin,      \* the task whose statement raised taskErr
  frames,         \* ATTEMPT / SALVAGE / rite-call frames of the coroutine
  \* --- event loop
  ready,          \* the loop's queue of scheduled callbacks, oldest first
  batch,          \* callbacks of the current loop iteration still to run
  running,        \* the user task that currently holds the loop, or None
  fuel,           \* statements the program may still execute
  cap,            \* entities and tasks the program may create in all
  \* --- the global scope
  counter,        \* the value of the global variable c (Scope.variables)
  held,           \* per task: the value an assignment evaluated, not yet set
  added,          \* history: the sum of the increments of the assignments
  \* --- the diagnostic channel (sys.stderr)
  reports,        \* per task: the times the error that ended it was printed
  \* --- module loading (_load_module)
  files,          \* the file system: path -> the modules the file imports
  evals,          \* the evaluators, each nested in the one before it
  scopes,         \* Scope objects: the variables of a global scope
  modFuel,        \* statements the files may still execute
  \* --- the scope chain (class Scope)
  nodes,          \* the Scope objects: parent, variables, constants
  scopeErr,       \* the RuntimeError the last Scope call raised, or "none"
  \* --- expression evaluation (evaluate)
  result,         \* history: what the last evaluate() returned or raised
  \* --- the stepping debugger (debugger.py)
  debugger,       \* Debugger.state, the task in step_hook, the command read
  \* --- arrays and maps (Python list and dict objects)
  heap,           \* the objects in the order they were made: type, items
  \* --- the scope of execution (Interpreter.current_scope)
  current_scope,  \* Interpreter.current_scope, a Scope object of nodes
  old_scope,      \* per task: the local old_scope of its calls in progress
  suspended_in    \* history, per task: current_scope when it last suspended

entVars  == <<entKind, entName, entDead, deathEvent, waiters, entTask, entOp,
              entKids, complete, innerWaits, orphans>>
regVars  == <<entities, regOrder, branch_entities, replacedBy, redied>>
taskVars == <<taskKind, pc, taskEnt, taskJoin, waitsOn, taskParent, taskCancels,
              taskErr, errOrigin, frames>>
loopVars == <<ready, batch, running>>
scopeVars == <<counter, held, added>>
modVars == <<files, evals, scopes, modFuel>>
chainVars == <<nodes, scopeErr>>
riteVars == <<current_scope, old_scope, suspended_in>>
exprVars == <<result, debugger, heap, riteVars>>
dataVars == <<scopeVars, reports, modVars, chainVars, exprVars>>
vars == <<entVars, regVars, pending_tasks, gathered, gpending, taskVars,
          loopVars, fuel, cap, dataVars>>

\* ---------------------------------------------------------------- helpers
\* nothing has been evaluated yet
NoValue == [kind |-> "none", name |-> "", val |-> None]

\* the interpreter has no debugger
NoDebugger == [state |-> "none", task |-> None, cmd |-> "none", at |-> None]

Finished == {"done", "failed", "cancelled"}
TaskDone(t) == pc[t] \in Finished

FreeEnts  == {e \in 1..cap.ents : entKind[e] = "none"}
FreeTasks == {t \in 1..cap.tasks : taskKind[t] = "none"}
NextEnt   == cap.ents - Cardinality(FreeEnts) + 1
NextTask  == cap.tasks - Cardinality(FreeTasks) + 1

\* The callbacks of the loop: the next step of task t; the done-callback
\* that run()'s gather put on task t; the next step of the i-th
\* wait_for_death task of composite c; and the done-callback that the
\* composite's gather / wait put on that task.
Step(t)        == <<"step", t, 0>>
GatherCb(t)    == <<"gcb", t, 0>>
InnerStep(c, i) == <<"inner", c, i>>
InnerCb(c, i)  == <<"icb", c, i>>

InQueue(q, item) == \E i \in 1..Len(q) : q[i] = item

\* the elements of a set of tasks in the order the tasks were created
RECURSIVE InOrder(_)
InOrder(S) ==
  IF S = {} THEN <<>>
  ELSE LET m == CHOOSE x \in S : \A y \in S : x <= y IN
       <<m>> \o InOrder(S \ {m})

\* The part of the state that die() reads and writes, as seen by the
\* callback that task cur is running, the loop's queue being q.
HeapAt(cur, q) ==
  [dead |-> entDead, event |-> deathEvent, cancels |-> taskCancels,
   waiters |-> waiters, ready |-> q, cur |-> cur]

\* ... as seen by a statement of the task that holds the loop
Heap == HeapAt(running, ready)

\* Task.cancel() as called by die() on the entity's task s: the request is
\* recorded; a task suspended on a future that is still pending has that
\* future cancelled, which schedules the task's next step.
cancel_wakes(h, s) ==
  IF s # h.cur /\ pc[s] = "waiting" /\ ~InQueue(h.ready, Step(s))
  THEN <<Step(s)>> ELSE <<>>

\* die() that flips the flag instead of setting it
die_toggle(h, e) ==
  LET s == entTask[e]
      c == s # None /\ ~TaskDone(s) IN
  [h EXCEPT !.dead[e] = ~@,
            !.event[e] = TRUE,
            !.cancels = IF c THEN [@ EXCEPT ![s] = @ + 1] ELSE @,
            !.ready = (@ \o h.waiters[e]) \o (IF c THEN cancel_wakes(h, s) ELSE <<>>),
            !.waiters[e] = <<>>]

\* die() without the `if not self._dead` guard
die_unguarded(h, e) ==
  LET s == entTask[e]
      c == s # None /\ ~TaskDone(s) IN
  [h EXCEPT !.dead[e] = TRUE,
            !.event[e] = TRUE,
            !.cancels = IF c THEN [@ EXCEPT ![s] = @ + 1] ELSE @,
            !.ready = (@ \o h.waiters[e]) \o (IF c THEN cancel_wakes(h, s) ELSE <<>>),
            !.waiters[e] = <<>>]

\* Entity.die (entities.py 26-32): set the flag, set the event (Event.set
\* schedules the next step of every waiter, in the order they began to
\* wait), cancel the entity's task if it has one that is not done
die(h, e) ==
  IF h.dead[e] THEN h
  ELSE LET s == entTask[e]
           c == s # None /\ ~TaskDone(s) IN
       [h EXCEPT !.dead[e] = TRUE,
                 !.event[e] = TRUE,
                 !.cancels = IF c THEN [@ EXCEPT ![s] = @ + 1] ELSE @,
                 !.ready = (@ \o h.waiters[e])
                             \o (IF c THEN cancel_wakes(h, s) ELSE <<>>),
                 !.waiters[e] = <<>>]

\* die() applied to each entity of a sequence, one after the other
RECURSIVE dieAll(_, _)
dieAll(h, es) ==
  IF es = <<>> THEN h ELSE dieAll(die(h, Head(es)), Tail(es))

\* wait_for_death that does not wait
wait_for_death_at_once(e) == TRUE

\* Entity.wait_for_death returns (entities.py 34-36): the event is set
wait_for_death(e) == deathEvent[e]

\* the branch tasks that are suspended at an await while h kills the
\* entity of their loop, by a DIE statement of a task of another entity or
\* by run()'s teardown
Orphaned(h) ==
  {b \in TaskIds : /\ taskKind[b] = "branch"
                   /\ h.cur \in TaskIds
                   /\ taskEnt[h.cur] # taskEnt[b]
                   /\ pc[b] \in {"yield", "waitDeath", "join"}
                   /\ ~entDead[taskEnt[b]]
                   /\ h.dead[taskEnt[b]]}

SetHeap(h) ==
  /\ entDead' = h.dead
  /\ orphans' = orphans \cup Orphaned(h)
  /\ deathEvent' = h.event
  /\ taskCancels' = h.cancels
  /\ waiters' = h.waiters
  /\ ready' = h.ready

\* The loop takes the callback at the head of its queue.  An iteration of
\* the loop runs the callbacks that are in the queue when it begins.
Turn(item) ==
  /\ running = None
  /\ ready # <<>>
  /\ Head(ready) = item
  /\ batch' = IF batch = 0 THEN Len(ready) - 1 ELSE batch - 1

\* ---------------------------------------------------------------- Init
\* Interpreter.__init__ (interpreter.py 86-97); asyncio.run has created the
\* task of run() and scheduled its first step.
InitEntities ==
  /\ entKind = [e \in EntIds |-> "none"]
  /\ entName = [e \in EntIds |-> ""]
  /\ entDead = [e \in EntIds |-> FALSE]
  /\ deathEvent = [e \in EntIds |-> FALSE]
  /\ waiters = [e \in EntIds |-> <<>>]
  /\ entTask = [e \in EntIds |-> None]
  /\ entOp = [e \in EntIds |-> "none"]
  /\ entKids = [e \in EntIds |-> <<>>]
  /\ complete = [e \in EntIds |-> FALSE]
  /\ innerWaits = [e \in EntIds |-> <<>>]
  /\ orphans = {}
  /\ entities = [n \in Names |-> None]
  /\ regOrder = <<>>
  /\ branch_entities = {}
  /\ replacedBy = [e \in EntIds |-> "none"]
  /\ redied = {}
  /\ pending_tasks = {}
  /\ gathered = {}
  /\ gpending = {}
  /\ taskKind = [t \in TaskIds |-> IF t = MainTask THEN "main" ELSE "none"]
  /\ pc = [t \in TaskIds |-> "new"]
  /\ taskEnt = [t \in TaskIds |-> None]
  /\ taskJoin = [t \in TaskIds |-> None]
  /\ waitsOn = [t \in TaskIds |-> None]
  /\ taskParent = [t \in TaskIds |-> None]
  /\ taskCancels = [t \in TaskIds |-> 0]
  /\ taskErr = [t \in TaskIds |-> "none"]
  /\ errOrigin = [t \in TaskIds |-> None]
  /\ frames = [t \in TaskIds |-> <<>>]
  /\ ready = <<Step(MainTask)>>
  /\ batch = 0
  /\ running = None
  /\ counter = 0
  /\ held = [t \in TaskIds |-> None]
  /\ added = 0
  /\ reports = [t \in TaskIds |-> 0]
  /\ result = NoValue

\* Interpreter.__init__ 88: the current scope is the global scope, the first
\* Scope object; no call is in progress
NoCalls ==
  /\ current_scope = 1
  /\ old_scope = [t \in TaskIds |-> <<>>]
  /\ suspended_in = [t \in TaskIds |-> None]

\* ... run without a debugger (Interpreter.__init__ 86, debugger=None)
InitBase ==
  /\ InitEntities
  /\ debugger = NoDebugger
  /\ heap = <<>>
  /\ NoCalls

\* a program that imports no module and nests no scope
NoModules ==
  /\ files = <<>>
  /\ evals = <<>>
  /\ scopes = <<>>
  /\ modFuel = 0
  /\ nodes = <<>>
  /\ scopeErr = "none"

\* a program of at most MaxStmts statements that creates at most MaxEnt
\* entities and MaxTask tasks
Init ==
  /\ InitBase
  /\ NoModules
  /\ fuel = MaxStmts
  /\ cap = [ents |-> MaxEnt, tasks |-> MaxTask]

\* ---------------------------------------------------------------- run()
\* Interpreter.run, lines 101-103: create THIS and register it
RunStart ==
  /\ Turn(Step(MainTask))
  /\ pc[MainTask] = "new"
  /\ LET e == NextEnt IN
       /\ entKind' = [entKind EXCEPT ![e] = "This"]
       /\ entName' = [entName EXCEPT ![e] = "THIS"]
       /\ entities' = [entities EXCEPT !["THIS"] = e]
       /\ regOrder' = Append(regOrder, "THIS")
  /\ pc' = [pc EXCEPT ![MainTask] = "run"]
  /\ ready' = Tail(ready)
  /\ running' = MainTask
  /\ UNCHANGED <<entDead, deathEvent, waiters, entTask, entOp, entKids,
                 complete, innerWaits, orphans, branch_entities, replacedBy, redied,
                 pending_tasks, gathered, gpending, taskKind,
                 taskEnt, taskJoin, waitsOn, taskParent, taskCancels, taskErr,
                 errOrigin, frames, fuel, cap, dataVars>>

\* ------------------------------------------------ how a user step ends
\* Interpreter.exec_attempt_salvage (477-489) and Interpreter.call_rite
\* (720-728): which frame of the coroutine stops an exception of kind k.
\* ATTEMPT catches RuntimeError and CondemnError and runs the handler; a
\* rite call catches BequeathError; anything else unwinds the frame.
\* an ATTEMPT that catches every exception
attempt_catches_all(k) == TRUE

\* exec_attempt_salvage 481, `except (RuntimeError, CondemnError)`
attempt_catches(k) == k \in {"Runtime", "Condemn"}

RECURSIVE Unwind(_, _)
Unwind(fr, k) ==
  IF fr = <<>> THEN [frames |-> <<>>, caught |-> FALSE]
  ELSE LET top  == fr[Len(fr)]
           rest == SubSeq(fr, 1, Len(fr) - 1)
       IN IF top = "attempt" /\ attempt_catches(k)
          THEN [frames |-> Append(rest, "salvage"), caught |-> TRUE]
          ELSE IF top = "rite" /\ k = "Bequeath"
          THEN [frames |-> rest, caught |-> TRUE]
          ELSE Unwind(rest, k)

RegisteredEnts == {entities[n] : n \in Names} \ {None}

\* run()'s finally, lines 119-122: kill every live entity of the registry,
\* in the order of the registry
teardown(h) ==
  dieAll(h, [i \in 1..Len(regOrder) |-> entities[regOrder[i]]])

\* The callbacks scheduled when task t becomes done: the step of the task
\* that awaits it (exec_ath_loop 343), the done-callback of run()'s gather
DoneCallbacks(t) ==
  IF taskKind[t] = "exec"
  THEN IF pc[taskParent[t]] = "join" /\ taskJoin[taskParent[t]] = t
       THEN <<Step(taskParent[t])>> ELSE <<>>
  ELSE IF t \in gpending THEN <<GatherCb(t)>> ELSE <<>>

\* run_branch without the complete() of its except clause
branch_on_error_forget(h, b) == [h |-> h, complete |-> FALSE]

\* run_branch's handling of an exception (363-365): complete, then re-raise
branch_on_error(h, b) == [h |-> die(h, b), complete |-> TRUE]

\* The coroutine of user task t ends, normally (k = "none") or with an
\* exception of kind k first raised in task o.  h is the heap and pend the
\* pending-task list the preceding part of the step produced.
\*   main   : run() 110-125   (finally: teardown, then gather if any task;
\*            gather puts a done-callback on each task, which is scheduled
\*            at once for a task that is done)
\*   branch : run_branch 361-367 (complete() on success and on Exception)
\*   exec   : exec_statements 503-506 (the task just ends)
EndTask(t, k, o, h, pend) ==
  LET fin == IF k = "none" THEN "done" ELSE "failed" IN
  /\ taskErr' = [taskErr EXCEPT ![t] = k]
  /\ errOrigin' = [errOrigin EXCEPT ![t] = o]
  /\ running' = None
  /\ frames' = [frames EXCEPT ![t] = <<>>]
  /\ UNCHANGED <<cap, dataVars>>
  /\ CASE taskKind[t] = "main" ->
            LET h1 == teardown(h)
                over == InOrder({x \in pend : TaskDone(x)}) IN
            /\ SetHeap([h1 EXCEPT !.ready =
                          @ \o [i \in 1..Len(over) |-> GatherCb(over[i])]])
            /\ gathered' = pend
            /\ gpending' = pend
            /\ pc' = [pc EXCEPT ![t] = IF pend = {} THEN fin ELSE "gather"]
            /\ UNCHANGED complete
       [] taskKind[t] = "branch" ->
            LET r == IF k = "none"
                     THEN [h |-> die(h, taskEnt[t]), complete |-> TRUE]
                     ELSE branch_on_error(h, taskEnt[t]) IN
            /\ SetHeap([r.h EXCEPT !.ready = @ \o DoneCallbacks(t)])
            /\ complete' = [complete EXCEPT ![taskEnt[t]] = @ \/ r.complete]
            /\ pc' = [pc EXCEPT ![t] = fin]
            /\ UNCHANGED <<gathered, gpending>>
       [] OTHER ->
            /\ SetHeap([h EXCEPT !.ready = @ \o DoneCallbacks(t)])
            /\ pc' = [pc EXCEPT ![t] = fin]
            /\ UNCHANGED <<complete, gathered, gpending>>

\* The statement completed; the task keeps the loop and goes on.
Continue(t, h) ==
  /\ SetHeap(h)
  /\ pc' = [pc EXCEPT ![t] = "run"]
  /\ running' = t
  /\ UNCHANGED <<taskErr, errOrigin, frames, complete, gathered, gpending, cap,
                 dataVars>>

\* The task suspends at an await, in position p.
Suspend(t, p, h) ==
  /\ SetHeap(h)
  /\ pc' = [pc EXCEPT ![t] = p]
  /\ running' = None
  /\ UNCHANGED <<taskErr, errOrigin, frames, complete, gathered, gpending, cap,
                 dataVars>>

\* An exception of kind k, first raised in task o, is raised in task t.
Raise(t, k, o, h, pend) ==
  LET u == Unwind(frames[t], k) IN
  IF u.caught
  THEN /\ SetHeap(h)
       /\ frames' = [frames EXCEPT ![t] = u.frames]
       /\ pc' = [pc EXCEPT ![t] = "run"]
       /\ running' = t
       /\ UNCHANGED <<taskErr, errOrigin, complete, gathered, gpending, cap,
                      dataVars>>
  ELSE EndTask(t, k, o, h, pend)

UserKinds == {"main", "branch", "exec"}
Runs(t) == running = t /\ pc[t] = "run" /\ taskKind[t] \in UserKinds
CanStmt(t) == Runs(t) /\ fuel > 0

\* Task slots that a wait-mode loop in progress will need for its EXECUTE
Reserved == Cardinality({t \in TaskIds : pc[t] = "waitDeath"})

\* ------------------------------------------------ statements
\* import that replaces the registry entry without killing the prior entity
import_keep_old(h, name) == h

\* exec_import 174-177: the entity registered under the name is killed
import_kill_old(h, name) ==
  IF entities[name] # None THEN die(h, entities[name]) ELSE h

\* a name assigned in the registry: a new key goes to the end of the dict
Registered(order, name) ==
  IF \E i \in 1..Len(order) : order[i] = name THEN order
  ELSE Append(order, name)

\* Interpreter.exec_import (169-235).  ok = FALSE: the arguments are
\* rejected (duration below 1ms, wrong count or type), a RuntimeError.
exec_import(t, kind, name, ok) ==
  /\ CanStmt(t)
  /\ fuel' = fuel - 1
  /\ batch' = batch
  /\ LET h1 == import_kill_old(Heap, name) IN
     IF ~ok
     THEN /\ Raise(t, "Runtime", t, h1, pending_tasks)
          /\ UNCHANGED <<entKind, entName, entTask, entOp, entKids, innerWaits,
                         regVars, pending_tasks, taskKind, taskEnt, taskJoin,
                         waitsOn, taskParent>>
     ELSE /\ FreeEnts # {}
          /\ Cardinality(FreeTasks) > Reserved
          /\ LET e == NextEnt
                 s == NextTask IN
             /\ entKind' = [entKind EXCEPT ![e] = kind]
             /\ entName' = [entName EXCEPT ![e] = name]
             /\ entities' = [entities EXCEPT ![name] = e]
             /\ regOrder' = Registered(regOrder, name)
             /\ replacedBy' = [x \in EntIds |->
                                IF x = entities[name] THEN "import"
                                ELSE replacedBy[x]]
             /\ entTask' = [entTask EXCEPT ![e] = s]
             /\ taskKind' = [taskKind EXCEPT ![s] = "start"]
             /\ taskEnt' = [taskEnt EXCEPT ![s] = e]
             /\ pending_tasks' = pending_tasks \cup {s}
             /\ Continue(t, [h1 EXCEPT !.ready = Append(@, Step(s))])
          /\ UNCHANGED <<entOp, entKids, innerWaits, branch_entities, redied,
                         taskJoin, waitsOn, taskParent>>

\* a bifurcate that does not look its source up
in_registry_or_not(name) == TRUE

\* exec_bifurcate 310, `entity_name not in self.entities`, negated
in_registry(name) == entities[name] # None

\* a minimum that rejects negative durations only
below_zero(ms) == ms < 0

\* _duration_to_ms 253, `if ms < 1`
below_minimum(ms) == ms < 1

\* Interpreter._duration_to_ms (237-256) up to the check of the minimum
duration_to_ms(value, unit) ==
  CASE unit = "ms" -> value
    [] unit = "s"  -> value * 1000
    [] unit = "m"  -> value * 60 * 1000
    [] unit = "h"  -> value * 60 * 60 * 1000
    [] OTHER       -> value

\* exec_import 179-187 for `import timer <name>(<value><unit>)`: the
\* duration is converted, which raises below the minimum, before the
\* TimerEntity is constructed
exec_import_timer(t, name, value, unit) ==
  exec_import(t, "Timer", name, ~below_minimum(duration_to_ms(value, unit)))

\* Interpreter.exec_bifurcate (304-321)
exec_bifurcate(t, src, l, r) ==
  /\ CanStmt(t)
  /\ fuel' = fuel - 1
  /\ batch' = batch
  /\ IF ~in_registry(src)
     THEN /\ Raise(t, "Runtime", t, Heap, pending_tasks)
          /\ UNCHANGED <<entKind, entName, regVars>>
     ELSE /\ Cardinality(FreeEnts) >= 2
          /\ LET b1 == NextEnt
                 b2 == NextEnt + 1 IN
             /\ entKind' = [entKind EXCEPT ![b1] = "Branch", ![b2] = "Branch"]
             /\ entName' = [entName EXCEPT ![b1] = l, ![b2] = r]
             /\ entities' = [entities EXCEPT ![l] = b1, ![r] = b2]
             /\ regOrder' = Registered(Registered(regOrder, l), r)
             /\ replacedBy' = [x \in EntIds |->
                                IF x \in {entities[l], entities[r]}
                                THEN "bifurcate" ELSE replacedBy[x]]
             /\ branch_entities' = branch_entities \cup {l, r}
             /\ UNCHANGED redied
          /\ Continue(t, Heap)
  /\ UNCHANGED <<entTask, entOp, entKids, innerWaits, pending_tasks, taskKind,
                 taskEnt, taskJoin, waitsOn, taskParent>>

\* Interpreter._kill_target (413-422) over the targets of a DIE statement,
\* left to right; an unknown name raises after the earlier ones were killed.
\* again: the targets that were dead when die() was called on them.
RECURSIVE kill_targets(_, _, _)
kill_targets(h, targets, again) ==
  IF targets = <<>> THEN [h |-> h, err |-> FALSE, again |-> again]
  ELSE IF entities[Head(targets)] = None
  THEN [h |-> h, err |-> TRUE, again |-> again]
  ELSE LET e == entities[Head(targets)] IN
       kill_targets(die(h, e), Tail(targets),
                    IF h.dead[e] THEN again \cup {e} ELSE again)

\* Interpreter.exec_die (409-411)
exec_die(t, targets) ==
  /\ CanStmt(t)
  /\ fuel' = fuel - 1
  /\ batch' = batch
  /\ LET r == kill_targets(Heap, targets, {}) IN
     /\ redied' = redied \cup r.again
     /\ IF r.err THEN Raise(t, "Runtime", t, r.h, pending_tasks)
                 ELSE Continue(t, r.h)
  /\ UNCHANGED <<entKind, entName, entTask, entOp, entKids, innerWaits,
                 entities, regOrder, branch_entities, replacedBy,
                 pending_tasks, taskKind, taskEnt, taskJoin, waitsOn,
                 taskParent>>

\* CONDEMN (exec_condemn 491-494), BEQUEATH (exec_bequeath 496-501), a
\* RuntimeError raised while evaluating an expression (evaluate 510-...),
\* or the debugger's quit at a statement (execute 128-138)
exec_raise(t, k) ==
  /\ CanStmt(t)
  /\ fuel' = fuel - 1
  /\ batch' = batch
  /\ Raise(t, k, t, Heap, pending_tasks)
  /\ UNCHANGED <<entKind, entName, entTask, entOp, entKids, innerWaits, regVars,
                 pending_tasks, taskKind, taskEnt, taskJoin, waitsOn, taskParent>>

\* exec_attempt_salvage line 479-480 (kind = "attempt"): the body begins;
\* call_rite 712-723 (kind = "rite"): the body of a rite begins
EnterFrame(t, kind) ==
  /\ CanStmt(t)
  /\ fuel' = fuel - 1
  /\ Len(frames[t]) < MaxDepth
  /\ frames' = [frames EXCEPT ![t] = Append(@, kind)]
  /\ UNCHANGED <<entVars, regVars, pending_tasks, gathered, gpending, taskKind,
                 pc, taskEnt, taskJoin, waitsOn, taskParent, taskCancels,
                 taskErr, errOrigin, loopVars, cap, dataVars>>

\* The body of the innermost ATTEMPT, SALVAGE handler or rite ran to its
\* end without raising (480, 487-489, 722-723 and 726-728)
LeaveFrame(t) ==
  /\ Runs(t)
  /\ frames[t] # <<>>
  /\ frames' = [frames EXCEPT ![t] = SubSeq(@, 1, Len(@) - 1)]
  /\ UNCHANGED <<entVars, regVars, pending_tasks, gathered, gpending, taskKind,
                 pc, taskEnt, taskJoin, waitsOn, taskParent, taskCancels,
                 taskErr, errOrigin, loopVars, fuel, cap, dataVars>>

\* The last statement of the task's statement list has been executed
Finish(t) ==
  /\ Runs(t)
  /\ frames[t] = <<>>
  /\ batch' = batch
  /\ EndTask(t, "none", None, Heap, pending_tasks)
  /\ UNCHANGED <<entKind, entName, entTask, entOp, entKids, innerWaits, regVars,
                 pending_tasks, taskKind, taskEnt, taskJoin, waitsOn, taskParent,
                 fuel>>

\* ------------------------------------------------ assignment
\* the right-hand sides `c + k` a program uses
Increments == {1, 10}

\* eval_binary_op (560-600) on two integers
eval_binary_op(op, l, r) ==
  CASE op = "+" -> l + r
    [] op = "-" -> l - r
    [] op = "*" -> l * r

\* an evaluation that hands the loop to the other tasks before it returns
evaluate_yields(t) ==
  /\ running' = None
  /\ ready' = Append(ready, Step(t))

\* evaluate (508-558) of `c + k`: Scope.get, a literal and eval_binary_op.
\* No await on the way suspends: the task still holds the loop.
evaluate_returns(t) ==
  /\ running' = t
  /\ ready' = ready

\* exec_assignment line 436, `value = await self.evaluate(node.value)` for
\* the statement `c = c + k` on the global c
exec_assignment_eval(t, k) ==
  /\ CanStmt(t)
  /\ fuel' = fuel - 1
  /\ held' = [held EXCEPT ![t] = eval_binary_op("+", counter, k)]
  /\ added' = added + k
  /\ pc' = [pc EXCEPT ![t] = "assign"]
  /\ evaluate_returns(t)
  /\ UNCHANGED <<entVars, regVars, pending_tasks, gathered, gpending, taskKind,
                 taskEnt, taskJoin, waitsOn, taskParent, taskCancels, taskErr,
                 errOrigin, frames, batch, cap, counter, reports, modVars,
                 chainVars, exprVars>>

\* exec_assignment lines 439-440, `self.current_scope.set(target.name,
\* value)`: Scope.set (54-63) stores the value in the scope that has c
exec_assignment_set(t) ==
  /\ running = t
  /\ pc[t] = "assign"
  /\ counter' = held[t]
  /\ held' = [held EXCEPT ![t] = None]
  /\ pc' = [pc EXCEPT ![t] = "run"]
  /\ UNCHANGED <<entVars, regVars, pending_tasks, gathered, gpending, taskKind,
                 taskEnt, taskJoin, waitsOn, taskParent, taskCancels, taskErr,
                 errOrigin, frames, loopVars, fuel, cap, added, reports,
                 modVars, chainVars, exprVars>>

\* ------------------------------------------------ ~ATH loops
Ident(n)  == [type |-> "Ident", name |-> n]
Not(x)    == [type |-> "Not", operand |-> x]
And(x, y) == [type |-> "And", left |-> x, right |-> y]
Or(x, y)  == [type |-> "Or", left |-> x, right |-> y]

\* entity expressions a wait-mode loop may name
EntityExprs ==
  {Ident(n) : n \in {"THIS", "A", "L"}}
    \cup {Not(Ident(n)) : n \in {"THIS", "A", "L"}}
    \cup {And(Ident("A"), Ident("L")), Or(Ident("A"), Ident("L")),
          And(Not(Ident("A")), Ident("L"))}

\* Interpreter.resolve_entity_expr (376-407).  Composites are numbered in
\* the order they are constructed, after the base entities that exist.
\* err: an identifier is not in the registry (380-381); the composites
\* constructed before that point stay constructed and started.
RECURSIVE resolve_entity_expr(_, _)
resolve_entity_expr(expr, base) ==
  IF expr.type = "Ident"
  THEN [root |-> entities[expr.name], made |-> <<>>,
        err |-> entities[expr.name] = None]
  ELSE IF expr.type = "Not"
  THEN LET i == resolve_entity_expr(expr.operand, base) IN
       IF i.err THEN i
       ELSE [root |-> base + Len(i.made) + 1,
             made |-> Append(i.made, [op |-> "NOT", kids |-> <<i.root>>]),
             err |-> FALSE]
  ELSE LET l == resolve_entity_expr(expr.left, base) IN
       IF l.err THEN l
       ELSE LET r == resolve_entity_expr(expr.right, base + Len(l.made)) IN
            IF r.err THEN [root |-> None, made |-> l.made \o r.made,
                           err |-> TRUE]
            ELSE [root |-> base + Len(l.made) + Len(r.made) + 1,
                  made |-> l.made \o r.made \o
                           <<[op |-> IF expr.type = "And" THEN "AND" ELSE "OR",
                              kids |-> <<l.root, r.root>>]>>,
                  err |-> FALSE]

\* The composites of `made` are constructed (387, 395, 402) and each gets
\* a task running its start() that is appended to _pending_tasks
\* (388-389, 396-397, 403-404).
MakeComposites(made) ==
  LET n  == Len(made)
      e0 == NextEnt - 1
      t0 == NextTask - 1 IN
  /\ entKind' = [e \in EntIds |->
                   IF e \in (e0 + 1)..(e0 + n) THEN "Composite" ELSE entKind[e]]
  /\ entOp' = [e \in EntIds |->
                   IF e \in (e0 + 1)..(e0 + n) THEN made[e - e0].op ELSE entOp[e]]
  /\ entKids' = [e \in EntIds |->
                   IF e \in (e0 + 1)..(e0 + n) THEN made[e - e0].kids
                   ELSE entKids[e]]
  /\ taskKind' = [t \in TaskIds |->
                   IF t \in (t0 + 1)..(t0 + n) THEN "composite" ELSE taskKind[t]]
  /\ taskEnt' = [t \in TaskIds |->
                   IF t \in (t0 + 1)..(t0 + n) THEN e0 + (t - t0) ELSE taskEnt[t]]
  /\ pending_tasks' = pending_tasks \cup (t0 + 1)..(t0 + n)

\* exec_ath_loop 342-343: the EXECUTE clause gets a task of its own and the
\* task that executed the loop awaits it.  x is the new task.
spawn_execute(t, x, e) ==
  /\ taskKind' = [taskKind EXCEPT ![x] = "exec"]
  /\ taskEnt' = [taskEnt EXCEPT ![x] = e]
  /\ taskParent' = [taskParent EXCEPT ![x] = t]
  /\ taskJoin' = [taskJoin EXCEPT ![t] = x]

\* EXECUTE spawned and not awaited: the looping task goes on at once
await_execute_skipped(t, h) == Continue(t, h)

\* exec_ath_loop 343, `await task`: the looping task suspends until the
\* EXECUTE task is done
await_execute(t, h) == Suspend(t, "join", h)


\* Interpreter.exec_ath_loop (323-343), wait mode, up to its first await.
\* Each composite's start() is scheduled when its task is created; a task
\* that has to wait joins the waiters of the event.
exec_ath_wait(t, expr) ==
  /\ CanStmt(t)
  /\ ~(expr.type = "Ident" /\ expr.name \in branch_entities)
  /\ fuel' = fuel - 1
  /\ batch' = batch
  /\ LET r == resolve_entity_expr(expr, NextEnt - 1)
         n == Len(r.made)
         h == [Heap EXCEPT !.ready =
                 @ \o [i \in 1..n |-> Step(NextTask - 1 + i)]] IN
     /\ n <= Cardinality(FreeEnts)
     /\ IF r.err
        THEN /\ n <= Cardinality(FreeTasks) - Reserved
             /\ MakeComposites(r.made)
             /\ Raise(t, "Runtime", t, h, pending_tasks')
             /\ UNCHANGED <<taskJoin, waitsOn, taskParent>>
        ELSE IF n = 0 /\ wait_for_death(r.root)
        THEN \* the event is set: wait() returns without suspending
             /\ Cardinality(FreeTasks) > Reserved
             /\ spawn_execute(t, NextTask, r.root)
             /\ await_execute(t, [h EXCEPT !.ready = Append(@, Step(NextTask))])
             /\ UNCHANGED <<entKind, entOp, entKids, pending_tasks, waitsOn>>
        ELSE /\ n + 1 <= Cardinality(FreeTasks) - Reserved
             /\ MakeComposites(r.made)
             /\ waitsOn' = [waitsOn EXCEPT ![t] = r.root]
             /\ Suspend(t, "waitDeath",
                        [h EXCEPT !.waiters[r.root] = Append(@, Step(t))])
             /\ UNCHANGED <<taskJoin, taskParent>>
  /\ UNCHANGED <<entName, entTask, innerWaits, regVars>>

\* Interpreter.exec_ath_loop 329-331 and exec_branch_mode (345-374): the
\* branch task is created (369), then the caller yields with sleep(0) (374)
exec_branch_mode(t, name) ==
  /\ CanStmt(t)
  /\ name \in branch_entities
  /\ fuel' = fuel - 1
  /\ batch' = batch
  /\ LET b == entities[name] IN
     IF entKind[b] # "Branch"
     THEN /\ Raise(t, "Runtime", t, Heap, pending_tasks)
          /\ UNCHANGED <<taskKind, taskEnt, pending_tasks>>
     ELSE /\ Cardinality(FreeTasks) > Reserved
          /\ taskKind' = [taskKind EXCEPT ![NextTask] = "branch"]
          /\ taskEnt' = [taskEnt EXCEPT ![NextTask] = b]
          /\ pending_tasks' = pending_tasks \cup {NextTask}
          /\ Suspend(t, "yield",
                     [Heap EXCEPT !.ready = @ \o <<Step(NextTask), Step(t)>>])
  /\ UNCHANGED <<entKind, entName, entTask, entOp, entKids, innerWaits, regVars,
                 taskJoin, waitsOn, taskParent>>

\* ------------------------------------------------ the event loop resumes
\* a suspended user task
\* A branch task (run_branch 351-356) or an EXECUTE task (exec_statements
\* 503-506) runs for the first time
StartUserTask(t) ==
  /\ Turn(Step(t))
  /\ taskKind[t] \in {"branch", "exec"}
  /\ pc[t] = "new"
  /\ Continue(t, HeapAt(t, Tail(ready)))
  /\ UNCHANGED <<entKind, entName, entTask, entOp, entKids, innerWaits, regVars,
                 pending_tasks, taskKind, taskEnt, taskJoin, waitsOn,
                 taskParent, fuel>>

\* exec_ath_loop 337-343: wait_for_death returned; spawn EXECUTE, await it
WakeWait(t) ==
  /\ Turn(Step(t))
  /\ pc[t] = "waitDeath"
  /\ wait_for_death(waitsOn[t])
  /\ FreeTasks # {}
  /\ spawn_execute(t, NextTask, waitsOn[t])
  /\ await_execute(t, [HeapAt(t, Tail(ready)) EXCEPT
                         !.ready = Append(@, Step(NextTask))])
  /\ UNCHANGED <<entKind, entName, entTask, entOp, entKids, innerWaits, regVars,
                 pending_tasks, waitsOn, fuel>>

\* exec_ath_loop 343: `await task` returns the result of the EXECUTE task
\* or raises its exception in the awaiting task
JoinWake(t) ==
  /\ Turn(Step(t))
  /\ pc[t] = "join"
  /\ TaskDone(taskJoin[t])
  /\ LET x == taskJoin[t]
         h == HeapAt(t, Tail(ready)) IN
     IF taskErr[x] = "none"
     THEN Continue(t, h)
     ELSE Raise(t, taskErr[x], errOrigin[x], h, pending_tasks)
  /\ taskJoin' = [taskJoin EXCEPT ![t] = None]
  /\ UNCHANGED <<entKind, entName, entTask, entOp, entKids, innerWaits, regVars,
                 pending_tasks, taskKind, taskEnt, waitsOn, taskParent, fuel>>

\* exec_branch_mode 374: asyncio.sleep(0) returns
YieldWake(t) ==
  /\ Turn(Step(t))
  /\ pc[t] = "yield"
  /\ Continue(t, HeapAt(t, Tail(ready)))
  /\ UNCHANGED <<entKind, entName, entTask, entOp, entKids, innerWaits, regVars,
                 pending_tasks, taskKind, taskEnt, taskJoin, waitsOn,
                 taskParent, fuel>>

\* ------------------------------------------------ entity start() tasks
\* A step of a task that only moves that task and the heap; a task that
\* becomes done has its done-callbacks scheduled
TaskStep(s, p, h) ==
  /\ SetHeap(IF p \in Finished
             THEN [h EXCEPT !.ready = @ \o DoneCallbacks(s)] ELSE h)
  /\ pc' = [pc EXCEPT ![s] = p]
  /\ UNCHANGED <<entKind, entName, entTask, entOp, entKids, complete, regVars,
                 pending_tasks, gathered, gpending, taskKind, taskEnt, taskJoin,
                 waitsOn, taskParent, taskErr, errOrigin, frames, running,
                 fuel, cap, dataVars>>

\* How a task ends whose coroutine returned: Task.__step turns a pending
\* cancel request into a cancelled task
Ended(h, s) == IF h.cancels[s] > 0 THEN "cancelled" ELSE "done"

\* First run of start() of a Timer, Process, Connection or Watcher
\* (entities.py 62-65, 80-88, 104-112, 137-149).  A task cancelled before
\* its first run never enters the coroutine.
StartBegin(s) ==
  /\ Turn(Step(s))
  /\ taskKind[s] = "start"
  /\ pc[s] = "new"
  /\ TaskStep(s, IF taskCancels[s] > 0 THEN "cancelled" ELSE "waiting",
              HeapAt(s, Tail(ready)))
  /\ UNCHANGED innerWaits

\* What start() awaits has happened: the sleep elapsed, the process exited,
\* the connection reached EOF or failed, the file is gone.  The loop sees
\* it between two iterations and schedules the next step of the task.
Elapse(s) ==
  /\ running = None
  /\ batch = 0
  /\ taskKind[s] = "start"
  /\ pc[s] = "waiting"
  /\ ~InQueue(ready, Step(s))
  /\ ready' = Append(ready, Step(s))
  /\ UNCHANGED <<entVars, regVars, pending_tasks, gathered, gpending, taskVars,
                 batch, running, fuel, cap, dataVars>>

\* start() after its await returned (66, 89-91, 115-117, 144, 151): it
\* calls self.die()
StartDies(s) ==
  /\ Turn(Step(s))
  /\ taskKind[s] = "start"
  /\ pc[s] = "waiting"
  /\ taskCancels[s] = 0
  /\ LET h == die(HeapAt(s, Tail(ready)), taskEnt[s]) IN
     TaskStep(s, Ended(h, s), h)
  /\ UNCHANGED innerWaits

\* What start() does with CancelledError: Timer and Watcher pass (67-68,
\* 152-153), Process and Connection call self.die() (90-91, 116-117)
start_on_cancel(h, e) ==
  IF entKind[e] \in {"Process", "Connection"} THEN die(h, e) ELSE h

StartCancelled(s) ==
  /\ Turn(Step(s))
  /\ taskKind[s] = "start"
  /\ pc[s] = "waiting"
  /\ taskCancels[s] > 0
  /\ TaskStep(s, "done", start_on_cancel(HeapAt(s, Tail(ready)), taskEnt[s]))
  /\ UNCHANGED innerWaits

\* ------------------------------------------------ CompositeEntity.start
\* the task that runs start() of composite c
HostOf(c) == CHOOSE s \in TaskIds : taskKind[s] = "composite" /\ taskEnt[s] = c

\* NOT that waits for the death of its operand
not_begin_on_death(h, s, c) ==
  IF h.event[entKids[c][1]] THEN [h EXCEPT !.ready = Append(@, Step(s))]
  ELSE [h EXCEPT !.waiters[entKids[c][1]] = Append(@, Step(s))]

\* 206: asyncio.sleep(0) schedules the next step of the task at once,
\* whatever the operand's state
not_begin(h, s, c) == [h EXCEPT !.ready = Append(@, Step(s))]

\* First run of CompositeEntity.start (185-207), up to its await.  AND and
\* OR make one wait_for_death task per child (191, 197), each scheduled
\* when it is made.
CompositeBegin(s) ==
  /\ Turn(Step(s))
  /\ taskKind[s] = "composite"
  /\ pc[s] = "new"
  /\ LET c == taskEnt[s]
         n == Len(entKids[c])
         h == HeapAt(s, Tail(ready)) IN
     IF entOp[c] = "NOT"
     THEN /\ TaskStep(s, "sleep0", not_begin(h, s, c))
          /\ UNCHANGED innerWaits
     ELSE /\ innerWaits' = [innerWaits EXCEPT ![c] = [i \in 1..n |-> "new"]]
          /\ TaskStep(s, IF entOp[c] = "AND" THEN "gather" ELSE "wait",
                      [h EXCEPT !.ready = @ \o [i \in 1..n |-> InnerStep(c, i)]])

\* A step of the i-th wait_for_death task of composite c (entities.py
\* 34-36): its first step returns if the event is set and waits otherwise;
\* its next step returns, or ends the task if it was cancelled meanwhile.
\* A task that returns is done and its done-callback is scheduled.
InnerTurn(c, i) ==
  /\ Turn(InnerStep(c, i))
  /\ LET kid == entKids[c][i]
         st  == innerWaits[c][i]
         q   == Tail(ready) IN
     CASE st = "new" /\ ~wait_for_death(kid) ->
            /\ innerWaits' = [innerWaits EXCEPT ![c][i] = "waiting"]
            /\ waiters' = [waiters EXCEPT ![kid] = Append(@, InnerStep(c, i))]
            /\ ready' = q
       [] st \in {"new", "waiting"} /\ wait_for_death(kid) ->
            /\ innerWaits' = [innerWaits EXCEPT ![c][i] = "done"]
            /\ ready' = Append(q, InnerCb(c, i))
            /\ UNCHANGED waiters
       [] OTHER ->
            /\ innerWaits' = [innerWaits EXCEPT ![c][i] = "cancelled"]
            /\ ready' = q
            /\ UNCHANGED waiters
  /\ UNCHANGED <<entKind, entName, entDead, deathEvent, entTask, entOp,
                 entKids, complete, orphans, regVars, pending_tasks, gathered, gpending,
                 taskVars, running, fuel, cap, dataVars>>

\* AND that is satisfied by the first death
and_ready_any(w) == \E i \in 1..Len(w) : w[i] = "seen"

\* 190-192: gather has a result when it has seen every task complete
and_ready(w) == \A i \in 1..Len(w) : w[i] = "seen"

\* 196-199: asyncio.wait(..., FIRST_COMPLETED) has a result when it has
\* seen a task complete
or_ready(w) == \E i \in 1..Len(w) : w[i] = "seen"

\* The done-callback of the i-th wait_for_death task of composite c: the
\* gather (AND) or wait (OR) that start() awaits counts the task and, when
\* that gives it its result, schedules the next step of start()
InnerDone(c, i) ==
  /\ Turn(InnerCb(c, i))
  /\ LET w  == innerWaits[c]
         w1 == [w EXCEPT ![i] = "seen"]
         now == IF entOp[c] = "AND" THEN and_ready(w1) /\ ~and_ready(w)
                ELSE or_ready(w1) /\ ~or_ready(w) IN
     /\ innerWaits' = [innerWaits EXCEPT ![c] = w1]
     /\ ready' = IF now THEN Append(Tail(ready), Step(HostOf(c)))
                 ELSE Tail(ready)
  /\ UNCHANGED <<entKind, entName, entDead, deathEvent, waiters, entTask, entOp,
                 entKids, complete, orphans, regVars, pending_tasks, gathered, gpending,
                 taskVars, running, fuel, cap, dataVars>>

\* 190-193
AndWake(s) ==
  /\ Turn(Step(s))
  /\ taskKind[s] = "composite"
  /\ pc[s] = "gather"
  /\ LET h == die(HeapAt(s, Tail(ready)), taskEnt[s]) IN
     TaskStep(s, Ended(h, s), h)
  /\ UNCHANGED innerWaits

\* 200-201: Task.cancel() on each wait_for_death task of c, from the i-th
\* on, that is not done: one that waits on the event is taken off the
\* event's waiters and its next step is scheduled
RECURSIVE or_cancel(_, _, _)
or_cancel(h, c, i) ==
  IF i > Len(entKids[c]) THEN h
  ELSE IF innerWaits[c][i] = "waiting" /\ ~InQueue(h.ready, InnerStep(c, i))
  THEN or_cancel([h EXCEPT !.ready = Append(@, InnerStep(c, i)),
                           !.waiters[entKids[c][i]] =
                              SelectSeq(@, LAMBDA x : x # InnerStep(c, i))],
                 c, i + 1)
  ELSE or_cancel(h, c, i + 1)

\* OR that kills its children instead of cancelling its waits
or_finish_kill(h, c) == dieAll(die(h, c), entKids[c])

\* 200-202: cancel the pending waits, then die
or_finish(h, c) == die(or_cancel(h, c, 1), c)

OrWake(s) ==
  /\ Turn(Step(s))
  /\ taskKind[s] = "composite"
  /\ pc[s] = "wait"
  /\ innerWaits' = [innerWaits EXCEPT ![taskEnt[s]] =
                      [i \in 1..Len(@) |->
                         IF @[i] \in {"new", "waiting"} THEN "cancelling"
                         ELSE @[i]]]
  /\ LET h == or_finish(HeapAt(s, Tail(ready)), taskEnt[s]) IN
     TaskStep(s, Ended(h, s), h)

\* 203-207
NotWake(s) ==
  /\ Turn(Step(s))
  /\ taskKind[s] = "composite"
  /\ pc[s] = "sleep0"
  /\ LET h == die(HeapAt(s, Tail(ready)), taskEnt[s]) IN
     TaskStep(s, Ended(h, s), h)
  /\ UNCHANGED innerWaits

\* ------------------------------------------------ run() returns
\* The done-callback that run()'s gather put on task g: gather counts the
\* task and, when it has seen every task complete, schedules the next step
\* of run()
GatherDone(g) ==
  /\ Turn(GatherCb(g))
  /\ gpending' = gpending \ {g}
  /\ ready' = IF gpending \ {g} = {} THEN Append(Tail(ready), Step(MainTask))
              ELSE Tail(ready)
  /\ UNCHANGED <<entVars, regVars, pending_tasks, gathered, taskVars, running,
                 fuel, cap, dataVars>>

\* gather without return_exceptions=True: the exception of a task is raised
gather_raises_first(tasks) ==
  IF \E g \in tasks : pc[g] = "failed"
  THEN LET g == CHOOSE x \in tasks : pc[x] = "failed" IN
       [err |-> taskErr[g], origin |-> errOrigin[g]]
  ELSE [err |-> "none", origin |-> None]

\* run() 125: gather(..., return_exceptions=True) returns the exceptions
\* of the tasks as values; it raises none of them
gather_raises(tasks) == [err |-> "none", origin |-> None]

\* run() 124-125 and the end of the finally block; an exception that leaves
\* run() leaves asyncio.run and run_source prints it on sys.stderr
\* (__main__.py 52, 59-60)
RunReturn ==
  /\ Turn(Step(MainTask))
  /\ pc[MainTask] = "gather"
  /\ LET g == gather_raises(gathered)
         k == IF g.err # "none" THEN g.err ELSE taskErr[MainTask]
         o == IF g.err # "none" THEN g.origin ELSE errOrigin[MainTask] IN
     /\ taskErr' = [taskErr EXCEPT ![MainTask] = k]
     /\ errOrigin' = [errOrigin EXCEPT ![MainTask] = o]
     /\ pc' = [pc EXCEPT ![MainTask] = IF k = "none" THEN "done" ELSE "failed"]
     /\ reports' = [reports EXCEPT ![MainTask] = IF k = "none" THEN @ ELSE @ + 1]
  /\ ready' = Tail(ready)
  /\ UNCHANGED <<entVars, regVars, pending_tasks, gathered, gpending, taskKind,
                 taskEnt, taskJoin, waitsOn, taskParent, taskCancels, frames,
                 running, fuel, cap, scopeVars, modVars, chainVars, exprVars>>

\* A branch task that ended with an exception which no gather retrieved is
\* released once run() has returned, and asyncio logs "Task exception was
\* never retrieved" on sys.stderr, once.
NeverRetrieved(b) ==
  /\ pc[MainTask] \in {"done", "failed"}
  /\ taskKind[b] = "branch"
  /\ pc[b] = "failed"
  /\ b \notin gathered
  /\ reports[b] = 0
  /\ reports' = [reports EXCEPT ![b] = 1]
  /\ UNCHANGED <<entVars, regVars, pending_tasks, gathered, gpending, taskVars,
                 loopVars, fuel, cap, scopeVars, modVars, chainVars, exprVars>>

\* ------------------------------------------------ specification
Statement ==
  \E t \in TaskIds :
    \/ \E f \in ImportForms : exec_import(t, f[1], f[2], f[3])
    \/ \E f \in BifurcateForms : exec_bifurcate(t, f[1], f[2], f[3])
    \/ \E targets \in DieTargets : exec_die(t, targets)
    \/ \E k \in ErrKinds : exec_raise(t, k)
    \/ \E kind \in {"attempt", "rite"} : EnterFrame(t, kind)
    \/ LeaveFrame(t)
    \/ \E expr \in EntityExprs : exec_ath_wait(t, expr)
    \/ \E name \in UserNames : exec_branch_mode(t, name)
    \/ \E k \in Increments : exec_assignment_eval(t, k)
    \/ exec_assignment_set(t)
    \/ Finish(t)

Resume ==
  \E t \in TaskIds :
    \/ StartUserTask(t)
    \/ WakeWait(t)
    \/ JoinWake(t)
    \/ YieldWake(t)

\* the steps of the start() tasks of imported entities
StartStep ==
  \E s \in TaskIds :
    \/ StartBegin(s)
    \/ StartDies(s)
    \/ StartCancelled(s)

\* the steps of the start() tasks of composites and of the tasks they make
CompositeStep ==
  \/ \E s \in TaskIds :
       \/ CompositeBegin(s)
       \/ AndWake(s)
       \/ OrWake(s)
       \/ NotWake(s)
  \/ \E c \in EntIds, i \in 1..2 :
       \/ InnerTurn(c, i)
       \/ InnerDone(c, i)

GatherStep == \E g \in TaskIds : GatherDone(g)

\* What happens outside the interpreter: time passes, a process exits, ...
Environment == \E s \in TaskIds : Elapse(s)

\* the interpreter object and the tasks it lists are released
Release == \E b \in TaskIds : NeverRetrieved(b)

Next ==
  \/ RunStart
  \/ Statement
  \/ Resume
  \/ StartStep
  \/ CompositeStep
  \/ GatherStep
  \/ Environment
  \/ RunReturn
  \/ Release

\* Programs that wait on entities and composites of entities from the main
\* task and its EXECUTE clauses: import, DIE and wait-mode loops
WaitImportForms ==
  {<<"Timer", "A", TRUE>>, <<"Process", "L", TRUE>>, <<"Timer", "A", FALSE>>}
WaitExprs ==
  {Ident("THIS"), Ident("A"), Not(Ident("A")), And(Ident("A"), Ident("L")),
   Or(Ident("A"), Ident("L")), And(Not(Ident("A")), Ident("L"))}

WaitStatement ==
  \E t \in TaskIds :
    \/ \E f \in WaitImportForms : exec_import(t, f[1], f[2], f[3])
    \/ \E targets \in DieTargets : exec_die(t, targets)
    \/ \E expr \in WaitExprs : exec_ath_wait(t, expr)
    \/ Finish(t)

WaitResume ==
  \E t \in TaskIds :
    \/ StartUserTask(t)
    \/ WakeWait(t)
    \/ JoinWake(t)

WaitNext ==
  \/ RunStart
  \/ WaitStatement
  \/ WaitResume
  \/ StartStep
  \/ CompositeStep
  \/ GatherStep
  \/ Environment
  \/ RunReturn

WaitSpec == Init /\ [][WaitNext]_vars

\* The event loop runs every callback of its queue and a program is a
\* finite list of statements: every step the interpreter can take is
\* eventually taken.  Nothing obliges the environment to let an entity die.
WaitFairSpec ==
  WaitSpec /\ WF_vars(RunStart \/ WaitStatement \/ WaitResume \/ StartStep
                              \/ CompositeStep \/ GatherStep \/ RunReturn)

\* Programs that bifurcate: import, bifurcate, branch-mode loops, wait-mode
\* loops on both branches, DIE and raised errors
BranchDieTargets == {<<"A">>, <<"L", "R">>}
BranchBifurcateForms == {<<"THIS", "L", "R">>, <<"A", "L", "R">>}
BranchWaitExprs  == {And(Ident("L"), Ident("R"))}

BranchStatement ==
  \E t \in TaskIds :
    \/ exec_import(t, "Timer", "A", TRUE)
    \/ \E f \in BranchBifurcateForms : exec_bifurcate(t, f[1], f[2], f[3])
    \/ \E k \in ErrKinds : exec_raise(t, k)
    \/ \E targets \in BranchDieTargets : exec_die(t, targets)
    \/ \E expr \in BranchWaitExprs : exec_ath_wait(t, expr)
    \/ \E name \in {"L", "R"} : exec_branch_mode(t, name)
    \/ Finish(t)

\* the composite steps of a program whose composites are all AND
AndStep ==
  \/ \E s \in TaskIds :
       \/ CompositeBegin(s)
       \/ AndWake(s)
  \/ \E c \in EntIds, i \in 1..2 :
       \/ InnerTurn(c, i)
       \/ InnerDone(c, i)

BranchNext ==
  \/ RunStart
  \/ BranchStatement
  \/ Resume
  \/ StartStep
  \/ AndStep
  \/ GatherStep
  \/ Environment
  \/ RunReturn
  \/ Release

BranchSpec == Init /\ [][BranchNext]_vars

BranchFairSpec ==
  BranchSpec /\ WF_vars(RunStart \/ BranchStatement \/ Resume \/ StartStep
                                  \/ AndStep \/ GatherStep \/ RunReturn
                                  \/ Release)

\* Programs that import a name again while a task waits on it: import,
\* bifurcate, branch-mode loops and wait-mode loops on the name
ReimportForms ==
  {<<"Timer", "A", TRUE>>, <<"Process", "A", TRUE>>, <<"Timer", "A", FALSE>>}

ReimportStatement ==
  \E t \in TaskIds :
    \/ \E f \in ReimportForms : exec_import(t, f[1], f[2], f[3])
    \/ exec_bifurcate(t, "THIS", "L", "R")
    \/ exec_ath_wait(t, Ident("A"))
    \/ exec_branch_mode(t, "L")
    \/ Finish(t)

ReimportNext ==
  \/ RunStart
  \/ ReimportStatement
  \/ Resume
  \/ StartStep
  \/ GatherStep
  \/ Environment
  \/ RunReturn

ReimportSpec == Init /\ [][ReimportNext]_vars

ReimportFairSpec ==
  ReimportSpec /\ WF_vars(RunStart \/ ReimportStatement \/ Resume
                                    \/ StartStep \/ GatherStep \/ RunReturn)

\* Programs that raise and catch: import, DIE, wait-mode loops on a name,
\* ATTEMPT / SALVAGE, rite calls, CONDEMN, BEQUEATH and the debugger's quit
ErrorWaitExprs == {Ident("THIS"), Ident("A")}
ErrorDieTargets == {<<"THIS">>, <<"A">>}

ErrorStatement ==
  \E t \in TaskIds :
    \/ exec_import(t, "Timer", "A", TRUE)
    \/ \E k \in Signals : exec_raise(t, k)
    \/ \E kind \in {"attempt", "rite"} : EnterFrame(t, kind)
    \/ LeaveFrame(t)
    \/ \E targets \in ErrorDieTargets : exec_die(t, targets)
    \/ \E expr \in ErrorWaitExprs : exec_ath_wait(t, expr)
    \/ Finish(t)

ErrorNext ==
  \/ RunStart
  \/ ErrorStatement
  \/ WaitResume
  \/ StartStep
  \/ GatherStep
  \/ Environment
  \/ RunReturn

ErrorSpec == Init /\ [][ErrorNext]_vars

\* Programs that update a shared variable from two branches: the main task
\* bifurcates, runs both branches and may wait on a timer of its own; each
\* branch imports its own timer and waits on it; the EXECUTE clause of a
\* wait on a branch's timer adds that branch's increment to c.
TimerOf(name) == IF name = "L" THEN "A" ELSE "B"
IncrementOf(name) == IF name = "A" THEN 1 ELSE 10

\* no statement of these programs is in a loop: none is executed twice
Imports(t, name) == entities[name] = None /\ exec_import(t, "Timer", name, TRUE)
Waits(t, name) == taskJoin[t] = None /\ exec_ath_wait(t, Ident(name))
Branches(t, name) ==
  /\ \A b \in TaskIds : taskKind[b] = "branch" => entName[taskEnt[b]] # name
  /\ exec_branch_mode(t, name)

CounterStatement ==
  \E t \in TaskIds :
    \/ /\ taskKind[t] = "main"
       /\ \/ entities["L"] = None /\ exec_bifurcate(t, "THIS", "L", "R")
          \/ \E name \in {"L", "R"} : Branches(t, name)
          \/ Imports(t, "W")
          \/ Waits(t, "W")
    \/ /\ taskKind[t] = "branch"
       /\ \/ Imports(t, TimerOf(entName[taskEnt[t]]))
          \/ Waits(t, TimerOf(entName[taskEnt[t]]))
    \/ /\ taskKind[t] = "exec"
       /\ entName[taskEnt[t]] \in {"A", "B"}
       /\ exec_assignment_eval(t, IncrementOf(entName[taskEnt[t]]))
    \/ exec_assignment_set(t)
    \/ Finish(t)

CounterNext ==
  \/ RunStart
  \/ CounterStatement
  \/ Resume
  \/ StartStep
  \/ GatherStep
  \/ Environment
  \/ RunReturn

CounterInit ==
  /\ InitBase
  /\ NoModules
  /\ fuel = CounterStmts
  /\ cap = [ents |-> CounterEnt, tasks |-> CounterTask]

CounterSpec == CounterInit /\ [][CounterNext]_vars

\* Programs that import timers of any duration: import timer, wait-mode
\* loops on the timer, ATTEMPT / SALVAGE around them
DurationValues == {-1, 0, 1, 2}
DurationUnits  == {"ms", "s", "m", "h"}

TimerStatement ==
  \E t \in TaskIds :
    \/ \E value \in DurationValues, unit \in DurationUnits :
         exec_import_timer(t, "A", value, unit)
    \/ EnterFrame(t, "attempt")
    \/ LeaveFrame(t)
    \/ exec_ath_wait(t, Ident("A"))
    \/ Finish(t)

TimerNext ==
  \/ RunStart
  \/ TimerStatement
  \/ WaitResume
  \/ StartStep
  \/ GatherStep
  \/ Environment
  \/ RunReturn

TimerSpec == Init /\ [][TimerNext]_vars

\* ------------------------------------------------ the stepping debugger
\* Programs run under the debugger: execute (129-138) calls step_hook
\* before a statement when the debugger's state is STEPPING.  The field
\* `at` is the statement count for which step_hook last returned.
Commands == {"step", "continue", "quit", "vars"}

\* Debugger.__init__ (60-64)
Debugger == [state |-> "STEPPING", task |-> None, cmd |-> "none", at |-> None]

\* step_hook 77-87: the state becomes PAUSED and the task awaits a line of
\* input, which a thread of the executor reads (get_input 49-52)
step_hook(t) ==
  /\ CanStmt(t)
  /\ debugger.state = "STEPPING"
  /\ debugger.at # fuel
  /\ debugger' = [debugger EXCEPT !.state = "PAUSED", !.task = t]
  /\ pc' = [pc EXCEPT ![t] = "paused"]
  /\ running' = None
  /\ UNCHANGED <<entVars, regVars, pending_tasks, gathered, gpending, taskKind,
                 taskEnt, taskJoin, waitsOn, taskParent, taskCancels, taskErr,
                 errOrigin, frames, ready, batch, fuel, cap, scopeVars,
                 reports, modVars, chainVars, result, heap, riteVars>>

\* the user has typed a command: the future of run_in_executor gets its
\* result and the next step of the task that awaits it is scheduled
get_input(cmd) ==
  /\ running = None
  /\ batch = 0
  /\ debugger.state = "PAUSED"
  /\ debugger.cmd = "none"
  /\ debugger' = [debugger EXCEPT !.cmd = cmd]
  /\ ready' = Append(ready, Step(debugger.task))
  /\ UNCHANGED <<entVars, regVars, pending_tasks, gathered, gpending, taskVars,
                 batch, running, fuel, cap, scopeVars, reports, modVars,
                 chainVars, result, heap, riteVars>>

\* process_command (199-213): the state a command leaves
command_state(cmd) ==
  CASE cmd = "step" -> "STEPPING"
    [] cmd = "continue" -> "RUNNING"
    [] cmd = "quit" -> "QUIT"
    [] OTHER -> "PAUSED"

\* step_hook 88-101: the task resumes with the command, process_command
\* sets the state; while the state is PAUSED the task awaits the next
\* command, otherwise step_hook returns to execute (state != QUIT)
process_command(t) ==
  /\ Turn(Step(t))
  /\ pc[t] = "paused"
  /\ ready' = Tail(ready)
  /\ LET s == command_state(debugger.cmd) IN
     IF s = "PAUSED"
     THEN /\ debugger' = [debugger EXCEPT !.cmd = "none"]
          /\ UNCHANGED <<pc, running>>
     ELSE /\ debugger' = [state |-> s, task |-> None, cmd |-> "none",
                           at |-> fuel]
          /\ pc' = [pc EXCEPT ![t] = "run"]
          /\ running' = t
  /\ UNCHANGED <<entVars, regVars, pending_tasks, gathered, gpending, taskKind,
                 taskEnt, taskJoin, waitsOn, taskParent, taskCancels, taskErr,
                 errOrigin, frames, fuel, cap, scopeVars, reports, modVars,
                 chainVars, result, heap, riteVars>>

\* execute 132 and 137: the statement is executed when the state is not
\* STEPPING or when step_hook returned true for it
hook_passed ==
  CASE debugger.state = "STEPPING" -> debugger.at = fuel
    [] debugger.state = "QUIT" -> debugger.at # fuel
    [] OTHER -> TRUE

\* execute 137-138: step_hook returned false
exec_quit(t) ==
  /\ debugger.state = "QUIT"
  /\ debugger.at = fuel
  /\ exec_raise(t, "Quit")

\* no statement of these programs is in a loop: none is executed twice
DebugStatement ==
  /\ hook_passed
  /\ \E t \in TaskIds :
       \/ Imports(t, "A")
       \/ entities["L"] = None /\ exec_bifurcate(t, "THIS", "L", "R")
       \/ frames[t] = <<>> /\ EnterFrame(t, "attempt")
       \/ Waits(t, "A")
       \/ \E name \in {"L", "R"} : Branches(t, name)

\* the end of a block or of the task's statements: no statement, no hook
DebugBlockEnd ==
  /\ debugger.at # fuel
  /\ \E t \in TaskIds : LeaveFrame(t) \/ Finish(t)

DebugStep ==
  \/ \E t \in TaskIds : step_hook(t) \/ process_command(t) \/ exec_quit(t)
  \/ \E cmd \in Commands : get_input(cmd)

DebugNext ==
  \/ RunStart
  \/ DebugStep
  \/ DebugStatement
  \/ DebugBlockEnd
  \/ Resume
  \/ StartStep
  \/ GatherStep
  \/ Environment
  \/ RunReturn
  \/ Release

DebugStmts == 6

DebugInit ==
  /\ InitEntities
  /\ NoModules
  /\ debugger = Debugger
  /\ heap = <<>>
  /\ NoCalls
  /\ fuel = DebugStmts
  /\ cap = [ents |-> MaxEnt, tasks |-> MaxTask]

DebugSpec == DebugInit /\ [][DebugNext]_vars

\* ------------------------------------------------ module loading
\* `import watcher M("<path>.~ATH")` loads the file as a module.  An
\* evaluator is an Interpreter object; the watcher that imports the file at
\* path p is named p.
Paths    == {"a", "b", "c"}
VarNames == {"x"}
\* a key of the registry of Builtins.get (builtins.py 68-117)
BuiltinNames == {"LENGTH"}
\* the names a program may bind: a plain name, the name of a builtin and
\* the name of a module watcher
DeclNames == VarNames \cup BuiltinNames \cup {"a"}
Values   == {1, 2}

\* the lists of at most n paths
RECURSIVE PathLists(_)
PathLists(n) ==
  IF n = 0 THEN {<<>>}
  ELSE PathLists(n - 1) \cup
       {Append(l, q) : l \in {m \in PathLists(n - 1) : Len(m) = n - 1}, q \in Paths}

\* Scope.__init__ (37-40): no variable is bound
EmptyScope == [v \in DeclNames |-> None]

modBase == <<entVars, regVars, pending_tasks, gathered, gpending, taskVars,
             loopVars, fuel, cap, scopeVars, reports, chainVars>>
coreVars == <<modBase, exprVars>>

\* a child evaluator that evaluates in the global scope of its parent
global_scope_of_parent(parent, fresh) == parent

\* Interpreter.__init__ line 87, `self.global_scope = Scope()`
global_scope(parent, fresh) == fresh

\* Interpreter.__init__ (86-97) for the program of a file; _load_module 295
\* sets the import stack.  alive: the registered names whose entity is
\* alive; pending: the length of _pending_tasks; exports: WatcherEntity
\* .exports of the watcher registered under each path.
Interpreter(program, source_file, stack, scope) ==
  [program |-> program, source_file |-> source_file, import_stack |-> stack,
   global_scope |-> scope, ip |-> 0, entities |-> {}, alive |-> {},
   branch_entities |-> {}, exports |-> [q \in Paths |-> EmptyScope],
   pending |-> 0, phase |-> "new", err |-> "none"]

\* the innermost evaluator: the others await its run()
Innermost == evals[Len(evals)]
SetInnermost(ev) == evals' = [evals EXCEPT ![Len(evals)] = ev]
ModRuns == evals # <<>> /\ Innermost.phase = "run"

\* run() 101-103: THIS is created and registered
mod_run ==
  /\ evals # <<>>
  /\ Innermost.phase = "new"
  /\ SetInnermost([Innermost EXCEPT !.phase = "run", !.entities = {"THIS"},
                                    !.alive = {"THIS"}])
  /\ UNCHANGED <<coreVars, files, scopes, modFuel>>

\* exec_var_decl (424-427), BIRTH x WITH v at the top level of a file
exec_var_decl(x, v) ==
  /\ ModRuns
  /\ modFuel > 0
  /\ modFuel' = modFuel - 1
  /\ scopes' = [scopes EXCEPT ![Innermost.global_scope][x] = v]
  /\ UNCHANGED <<coreVars, files, evals>>

\* exec_import (169-235) of a timer at the top level of a file
mod_import_timer ==
  /\ ModRuns
  /\ modFuel > 0
  /\ modFuel' = modFuel - 1
  /\ SetInnermost([Innermost EXCEPT !.entities = @ \cup {"T"},
                                    !.alive = @ \cup {"T"},
                                    !.pending = @ + 1])
  /\ UNCHANGED <<coreVars, files, scopes>>

\* exec_bifurcate (304-321) of THIS at the top level of a file
mod_bifurcate ==
  /\ ModRuns
  /\ modFuel > 0
  /\ modFuel' = modFuel - 1
  /\ SetInnermost([Innermost EXCEPT !.entities = @ \cup {"L", "R"},
                                    !.alive = @ \cup {"L", "R"},
                                    !.branch_entities = @ \cup {"L", "R"}])
  /\ UNCHANGED <<coreVars, files, scopes>>

\* run() 118-125 after the last statement (err = "none") or after an
\* uncaught error: every entity is killed, the pending tasks are awaited
teardown_module(ev, err) ==
  [ev EXCEPT !.alive = {},
             !.err = err,
             !.phase = IF ev.pending > 0 THEN "gather"
                       ELSE IF err = "none" THEN "done" ELSE "failed"]

\* a guard that looks only at the file that is importing
on_import_stack_top(path, stack) ==
  stack # <<>> /\ stack[Len(stack)] = path

\* _load_module 271, `resolved_path in self._import_stack`
on_import_stack(path, stack) ==
  \E i \in 1..Len(stack) : stack[i] = path

\* exec_import 174-177 and 217-229 for the next watcher import of the file,
\* and _load_module (265-297) up to `await child.run(program)`
exec_import_watcher ==
  /\ ModRuns
  /\ Innermost.ip < Len(Innermost.program)
  /\ LET path == Innermost.program[Innermost.ip + 1]
         ev   == [Innermost EXCEPT !.alive = @ \ {path}]
         n    == Len(evals) + 1
         sc   == global_scope(Innermost.global_scope, n) IN
     IF on_import_stack(path, Innermost.import_stack)
     THEN /\ SetInnermost(teardown_module(ev, "Circular import"))
          /\ UNCHANGED scopes
     ELSE /\ n <= MaxNest
          /\ evals' = Append([evals EXCEPT ![Len(evals)] = ev],
                             Interpreter(files[path], path,
                                         Append(Innermost.import_stack, path),
                                         sc))
          /\ scopes' = [scopes EXCEPT ![n] = EmptyScope]
  /\ UNCHANGED <<coreVars, files, modFuel>>

\* the last top-level statement of the file has been executed
mod_finish ==
  /\ ModRuns
  /\ Innermost.ip = Len(Innermost.program)
  /\ SetInnermost(teardown_module(Innermost, "none"))
  /\ UNCHANGED <<coreVars, files, scopes, modFuel>>

\* run() 124-125: the pending tasks of the evaluator have all ended
mod_gather ==
  /\ evals # <<>>
  /\ Innermost.phase = "gather"
  /\ SetInnermost([Innermost EXCEPT
                     !.pending = 0,
                     !.phase = IF Innermost.err = "none" THEN "done"
                               ELSE "failed"])
  /\ UNCHANGED <<coreVars, files, scopes, modFuel>>

\* _load_module 297-302 and exec_import 231-235: the child's run() returned;
\* the exports are copied, the watcher is registered and started
load_module_returns ==
  /\ Len(evals) > 1
  /\ Innermost.phase = "done"
  /\ LET n      == Len(evals)
         parent == evals[n - 1]
         path   == parent.program[parent.ip + 1] IN
     evals' = Append(SubSeq(evals, 1, n - 2),
                     [parent EXCEPT
                        !.exports[path] = scopes[Innermost.global_scope],
                        !.entities = @ \cup {path},
                        !.alive = @ \cup {path},
                        !.pending = @ + 1,
                        !.ip = @ + 1])
  /\ UNCHANGED <<coreVars, files, scopes, modFuel>>

\* _load_module 297: the child's run() raised; the error leaves exec_import
\* and, at the top level of the parent, the parent's run()
load_module_raises ==
  /\ Len(evals) > 1
  /\ Innermost.phase = "failed"
  /\ LET n == Len(evals) IN
     evals' = Append(SubSeq(evals, 1, n - 2),
                     teardown_module(evals[n - 1], Innermost.err))
  /\ UNCHANGED <<coreVars, files, scopes, modFuel>>

ModuleNext ==
  \/ mod_run
  \/ \E x \in VarNames, v \in Values : exec_var_decl(x, v)
  \/ mod_import_timer
  \/ mod_bifurcate
  \/ exec_import_watcher
  \/ mod_finish
  \/ mod_gather
  \/ load_module_returns
  \/ load_module_raises

\* any files, any of them run as the main program (run_source 51-52: the
\* main evaluator is given no source file and has an empty import stack)
ModuleInit ==
  /\ InitBase
  /\ fuel = 0
  /\ cap = [ents |-> 0, tasks |-> 0]
  /\ files \in [Paths -> PathLists(MaxImports)]
  /\ \E q \in Paths : evals = <<Interpreter(files[q], "none", <<>>, 1)>>
  /\ scopes = [i \in 1..MaxNest |-> EmptyScope]
  /\ modFuel = MaxModStmts
  /\ nodes = <<>>
  /\ scopeErr = "none"

ModuleSpec == ModuleInit /\ [][ModuleNext]_vars

\* Files that hold nothing but watcher imports
ImportNext ==
  \/ mod_run
  \/ exec_import_watcher
  \/ mod_finish
  \/ mod_gather
  \/ load_module_returns
  \/ load_module_raises

ImportInit ==
  /\ InitBase
  /\ fuel = 0
  /\ cap = [ents |-> 0, tasks |-> 0]
  /\ files \in [Paths -> PathLists(MaxImports)]
  /\ \E q \in Paths : evals = <<Interpreter(files[q], "none", <<>>, 1)>>
  /\ scopes = [i \in 1..MaxNest |-> EmptyScope]
  /\ modFuel = 0
  /\ nodes = <<>>
  /\ scopeErr = "none"

ImportSpec == ImportInit /\ [][ImportNext]_vars

\* every evaluator runs its file to the end
ImportFairSpec == ImportSpec /\ WF_vars(ImportNext)

\* ------------------------------------------------ identifiers
\* The identifiers an expression statement at the top level of a file may
\* name: THIS, a variable, a builtin, the timer, the watchers of two files.
ExprNames == {"THIS", "T"} \cup DeclNames \cup {"b"}

Value(kind, name, val) == [kind |-> kind, name |-> name, val |-> val]

\* evaluate (515-532) of Identifier `name` by evaluator ev, whose scopes are
\* sc; a watcher registered under a path has loaded the file as a module
\* (_load_module 302, is_module = True), no other entity is a module
evaluate(ev, sc, name) ==
  IF name = "THIS" THEN Value("entity", "THIS", None)
  ELSE IF name \in BuiltinNames THEN Value("builtin", name, None)
  ELSE IF name \in DeclNames /\ sc[ev.global_scope][name] # None
  THEN Value("variable", name, sc[ev.global_scope][name])
  ELSE IF name \in ev.entities /\ name \in Paths
  THEN Value("entity", name, None)
  ELSE Value("undefined", name, None)

\* execute 165-166, an expression statement `name;` at the top level of a
\* file; an undefined name raises RuntimeError, which ends run()
exec_expr(name) ==
  /\ ModRuns
  /\ modFuel > 0
  /\ modFuel' = modFuel - 1
  /\ result' = evaluate(Innermost, scopes, name)
  /\ IF result'.kind = "undefined"
     THEN SetInnermost(teardown_module(Innermost, "Undefined variable"))
     ELSE UNCHANGED evals
  /\ UNCHANGED <<modBase, files, scopes, debugger, heap, riteVars>>

ExprStmts == 2

ExprNext ==
  \/ mod_run
  \/ \E x \in DeclNames, v \in Values : exec_var_decl(x, v)
  \/ mod_import_timer
  \/ exec_import_watcher
  \/ \E name \in ExprNames : exec_expr(name)
  \/ mod_finish
  \/ mod_gather
  \/ load_module_returns
  \/ load_module_raises

\* files that import at most one module each
ExprInit ==
  /\ InitBase
  /\ fuel = 0
  /\ cap = [ents |-> 0, tasks |-> 0]
  /\ files \in [Paths -> PathLists(1)]
  /\ \E q \in Paths : evals = <<Interpreter(files[q], "none", <<>>, 1)>>
  /\ scopes = [i \in 1..MaxNest |-> EmptyScope]
  /\ modFuel = ExprStmts
  /\ nodes = <<>>
  /\ scopeErr = "none"

ExprSpec == ExprInit /\ [][ExprNext]_vars

\* ------------------------------------------------ AND / OR
\* Expressions whose operands may have a side effect: a literal, or a call
\* of a rite `RITE f() { c = c + 1; BEQUEATH v; }` on the global variable c.
DEAD  == Value("bool", "", 0)
ALIVE == Value("bool", "", 1)
VOID  == Value("void", "", 0)
Integer(i) == Value("int", "", i)

Literal(v)  == [type |-> "Literal", value |-> v]
CallExpr(v) == [type |-> "CallExpr", value |-> v]
BinaryOp(op, x, y) ==
  [type |-> "BinaryOp", operator |-> op, left |-> x, right |-> y]

\* is_truthy (builtins.py 44-56) on VOID, booleans and integers
is_truthy(v) == v.kind # "void" /\ v.val # 0

RECURSIVE eval_node(_, _)

\* AND / OR that evaluate both operands before they decide
eval_both_operands(node, c) ==
  LET left  == eval_node(node.left, c)
      right == eval_node(node.right, left.c)
      takeLeft == IF node.operator = "AND" THEN ~is_truthy(left.value)
                  ELSE is_truthy(left.value) IN
  [value |-> IF takeLeft THEN left.value ELSE right.value, c |-> right.c]

\* eval_binary_op 564-575, with c the value of the global variable before
eval_short_circuit(node, c) ==
  LET left == eval_node(node.left, c) IN
  IF node.operator = "AND"
  THEN IF ~is_truthy(left.value) THEN left
       ELSE eval_node(node.right, left.c)
  ELSE IF is_truthy(left.value) THEN left
       ELSE eval_node(node.right, left.c)

\* evaluate 512-513 (Literal), 534-535 (BinaryOp) and 540-541 (CallExpr:
\* call_rite 719-725 runs the body and returns the BEQUEATH value)
eval_node(node, c) ==
  CASE node.type = "Literal" -> [value |-> node.value, c |-> c]
    [] node.type = "CallExpr" ->
         [value |-> node.value, c |-> eval_binary_op("+", c, 1)]
    [] node.type = "BinaryOp" -> eval_short_circuit(node, c)

Operands ==
  {Literal(DEAD), Literal(ALIVE), Literal(VOID), Literal(Integer(0)),
   Literal(Integer(2)), CallExpr(DEAD), CallExpr(ALIVE)}
Operators == {"AND", "OR"}
Flat == {BinaryOp(op, x, y) : op \in Operators, x \in Operands, y \in Operands}
\* x op y, and (x op y) op z with calls in x op y
LogicExprs ==
  Flat \cup {BinaryOp(op, x, y) :
               op \in Operators,
               x \in {f \in Flat : f.left.type = "CallExpr"
                                  /\ f.right.type = "CallExpr"},
               y \in Operands}

\* execute 165-166, an expression statement
exec_logic(node) ==
  /\ fuel > 0
  /\ fuel' = fuel - 1
  /\ LET r == eval_node(node, counter) IN
     /\ result' = r.value
     /\ counter' = r.c
  /\ UNCHANGED <<entVars, regVars, pending_tasks, gathered, gpending, taskVars,
                 loopVars, cap, held, added, reports, modVars, chainVars,
                 debugger, heap, riteVars>>

LogicStmts == 4

LogicNext == \E node \in LogicExprs : exec_logic(node)

LogicInit ==
  /\ InitBase
  /\ NoModules
  /\ fuel = LogicStmts
  /\ cap = [ents |-> 0, tasks |-> 0]

LogicSpec == LogicInit /\ [][LogicNext]_vars

\* ------------------------------------------------ arrays and maps
\* An array or a map is an object of the heap; a value that is an array or
\* a map is a reference to the object.  The items of a map are in the
\* order of insertion and carry their key in the field `name`.  The fields
\* `by` and `args` of an object are history: the builtin that made it and
\* the objects that call was given.
MaxObjects == 3
MaxItems   == 2

Ref(o) == Value("ref", "", o)
Failure == Value("error", "", None)
Obj(type, items, by, args) ==
  [type |-> type, items |-> items, by |-> by, args |-> args]
IsA(h, v, type) == v.kind = "ref" /\ h[v.val].type = type
Keyed(v, key) == [v EXCEPT !.name = key]

\* a call that made a new object / that raised RuntimeError
Made(h, o) == [heap |-> Append(h, o), value |-> Ref(Len(h) + 1)]
Raised(h) == [heap |-> h, value |-> Failure]

\* list.append on the argument itself
append_in_place(h, arr, v) ==
  IF ~IsA(h, arr, "array") THEN Raised(h)
  ELSE [heap |-> [h EXCEPT ![arr.val].items = Append(@, v)], value |-> arr]

\* Builtins.append (builtins.py 244-248), `arr + [value]`
append(h, arr, v) ==
  IF ~IsA(h, arr, "array") THEN Raised(h)
  ELSE Made(h, Obj("array", Append(h[arr.val].items, v), "APPEND", <<arr.val>>))

\* Builtins.prepend (250-254), `[value] + arr`
prepend(h, arr, v) ==
  IF ~IsA(h, arr, "array") THEN Raised(h)
  ELSE Made(h, Obj("array", <<v>> \o h[arr.val].items, "PREPEND", <<arr.val>>))

\* a Python slice bound: a negative index counts from the end, the bound is
\* clamped to the length
Bound(i, n) ==
  LET j == IF i < 0 THEN i + n ELSE i IN
  IF j < 0 THEN 0 ELSE IF j > n THEN n ELSE j

\* Builtins.slice (256-262), `arr[start:end]`
slice(h, arr, start, end) ==
  IF ~IsA(h, arr, "array") THEN Raised(h)
  ELSE LET items == h[arr.val].items
           a == Bound(start, Len(items))
           b == Bound(end, Len(items)) IN
       Made(h, Obj("array", SubSeq(items, a + 1, b), "SLICE", <<arr.val>>))

\* Builtins.concat (280-284), `arr1 + arr2`
concat(h, arr1, arr2) ==
  IF ~IsA(h, arr1, "array") \/ ~IsA(h, arr2, "array") THEN Raised(h)
  ELSE Made(h, Obj("array", h[arr1.val].items \o h[arr2.val].items,
                   "CONCAT", <<arr1.val, arr2.val>>))

\* dict.__setitem__: the value of a key that is present is replaced where
\* it is, a new key is put last
setitem(items, key, v) ==
  IF \E i \in 1..Len(items) : items[i].name = key
  THEN [i \in 1..Len(items) |->
          IF items[i].name = key THEN Keyed(v, key) ELSE items[i]]
  ELSE Append(items, Keyed(v, key))

\* Builtins.set_ (306-312), on a copy of the map
set_(h, m, key, v) ==
  IF ~IsA(h, m, "map") THEN Raised(h)
  ELSE Made(h, Obj("map", setitem(h[m.val].items, key, v), "SET", <<m.val>>))

\* Builtins.delete (314-320), on a copy of the map
delete(h, m, key) ==
  IF ~IsA(h, m, "map") THEN Raised(h)
  ELSE LET Keeps(x) == x.name # key IN
       Made(h, Obj("map", SelectSeq(h[m.val].items, Keeps), "DELETE",
                   <<m.val>>))

\* str() of an index
str(i) ==
  CASE i = 0 -> "0"
    [] i = 1 -> "1"
    [] i = 2 -> "2"
    [] i = -1 -> "-1"

Indices == {-1, 0, 1, 2}
Keys == {str(i) : i \in {0, 1}}
\* the values a program has at hand: integers and the objects made so far
Atoms(h) == {Integer(1), Integer(2)} \cup {Ref(o) : o \in 1..Len(h)}
Refs(h) == {Ref(o) : o \in 1..Len(h)}

\* the calls of the builtins that return a collection
CollectionCalls(h) ==
  [name : {"APPEND", "PREPEND"}, arr : Refs(h), value : Atoms(h)]
    \cup [name : {"SLICE"}, arr : Refs(h), start : Indices, end : Indices]
    \cup [name : {"CONCAT"}, arr1 : Refs(h), arr2 : Refs(h)]
    \cup [name : {"SET"}, m : Refs(h), key : Keys, value : Atoms(h)]
    \cup [name : {"DELETE"}, m : Refs(h), key : Keys]

\* eval_call 690-692, `callee(*args)`
call_builtin(h, c) ==
  CASE c.name = "APPEND" -> append(h, c.arr, c.value)
    [] c.name = "PREPEND" -> prepend(h, c.arr, c.value)
    [] c.name = "SLICE" -> slice(h, c.arr, c.start, c.end)
    [] c.name = "CONCAT" -> concat(h, c.arr1, c.arr2)
    [] c.name = "SET" -> set_(h, c.m, c.key, c.value)
    [] c.name = "DELETE" -> delete(h, c.m, c.key)

\* the heap holds at most MaxObjects objects of at most MaxItems items
Fits(h) ==
  /\ Len(h) <= MaxObjects
  /\ \A o \in 1..Len(h) : Len(h[o].items) <= MaxItems

\* evaluate 549-556, an array literal `[v, ...]` or a map literal
exec_literal(type, items) ==
  /\ fuel > 0
  /\ fuel' = fuel - 1
  /\ Len(heap) < MaxObjects
  /\ heap' = Append(heap, Obj(type, items, "literal", <<>>))
  /\ result' = Ref(Len(heap) + 1)
  /\ UNCHANGED <<entVars, regVars, pending_tasks, gathered, gpending, taskVars,
                 loopVars, cap, scopeVars, reports, modVars, chainVars,
                 debugger, riteVars>>

\* an expression statement that calls a builtin
exec_call(c) ==
  /\ fuel > 0
  /\ fuel' = fuel - 1
  /\ LET r == call_builtin(heap, c) IN
     /\ Fits(r.heap)
     /\ heap' = r.heap
     /\ result' = r.value
  /\ UNCHANGED <<entVars, regVars, pending_tasks, gathered, gpending, taskVars,
                 loopVars, cap, scopeVars, reports, modVars, chainVars,
                 debugger, riteVars>>

\* exec_assignment 441-452, `obj[index] = value`
exec_index_assign(obj, index, v) ==
  /\ fuel > 0
  /\ fuel' = fuel - 1
  /\ IF IsA(heap, obj, "array")
     THEN IF index < 0 \/ index >= Len(heap[obj.val].items)
          THEN /\ result' = Failure
               /\ UNCHANGED heap
          ELSE /\ heap' = [heap EXCEPT ![obj.val].items[index + 1] = v]
               /\ UNCHANGED result
     ELSE /\ Len(setitem(heap[obj.val].items, str(index), v)) <= MaxItems
          /\ heap' = [heap EXCEPT ![obj.val].items = setitem(@, str(index), v)]
          /\ UNCHANGED result
  /\ UNCHANGED <<entVars, regVars, pending_tasks, gathered, gpending, taskVars,
                 loopVars, cap, scopeVars, reports, modVars, chainVars,
                 debugger, riteVars>>

HeapStmts == 3

\* the literals: arrays of at most MaxItems items, the empty map
Literals(h) ==
  {<<"array", items>> :
     items \in {<<>>} \cup {<<x>> : x \in Atoms(h)}
                    \cup {<<x, y>> : x \in Atoms(h), y \in Atoms(h)}}
    \cup {<<"map", <<>>>>}

HeapNext ==
  \/ \E l \in Literals(heap) : exec_literal(l[1], l[2])
  \/ \E c \in CollectionCalls(heap) : exec_call(c)
  \/ \E obj \in Refs(heap), index \in Indices, v \in Atoms(heap) :
        exec_index_assign(obj, index, v)

HeapInit ==
  /\ InitBase
  /\ NoModules
  /\ fuel = HeapStmts
  /\ cap = [ents |-> 0, tasks |-> 0]

HeapSpec == HeapInit /\ [][HeapNext]_vars

\* ------------------------------------------------ the scope chain
\* Scope objects are numbered in the order they are constructed; a name
\* that is not a key of Scope.variables is bound to None here.
ScopeNames == {"x", "y"}
baseVars == <<entVars, regVars, pending_tasks, gathered, gpending, taskVars,
              loopVars, fuel, cap, scopeVars, reports, modVars, exprVars>>

\* Scope.__init__ (37-40)
Scope(parent) ==
  [parent |-> parent, variables |-> [v \in ScopeNames |-> None],
   constants |-> {}]

\* the scopes from node n outwards
RECURSIVE Enclosing(_, _)
Enclosing(ns, n) ==
  IF n = None THEN {} ELSE {n} \cup Enclosing(ns, ns[n].parent)

\* a define that writes where the name is already bound
define_at_binding(ns, n, name, value, constant) ==
  LET b == {m \in Enclosing(ns, n) : ns[m].variables[name] # None}
      m == IF b = {} THEN n ELSE CHOOSE x \in b : \A y \in b : y <= x IN
  [ns EXCEPT ![m].variables[name] = value,
             ![m].constants = IF constant THEN @ \cup {name} ELSE @]

\* Scope.define (42-45)
define(ns, n, name, value, constant) ==
  [ns EXCEPT ![n].variables[name] = value,
             ![n].constants = IF constant THEN @ \cup {name} ELSE @]

\* Scope.set (54-63)
RECURSIVE set(_, _, _, _)
set(ns, n, name, value) ==
  IF ns[n].variables[name] # None
  THEN IF name \in ns[n].constants
       THEN [nodes |-> ns, err |-> "Cannot reassign constant"]
       ELSE [nodes |-> [ns EXCEPT ![n].variables[name] = value],
             err |-> "none"]
  ELSE IF ns[n].parent # None
  THEN set(ns, ns[n].parent, name, value)
  ELSE [nodes |-> ns, err |-> "Undefined variable"]

\* Scope(parent): a rite call (call_rite 713, the parent is the closure) or
\* a SALVAGE handler (exec_attempt_salvage 483-484)
ScopeNew(parent) ==
  /\ Len(nodes) < MaxScopes
  /\ parent \in 1..Len(nodes)
  /\ nodes' = Append(nodes, Scope(parent))
  /\ scopeErr' = "none"
  /\ UNCHANGED baseVars

\* BIRTH (exec_var_decl 424-427) and ENTOMB (exec_const_decl 429-432)
\* executed with node n as the current scope
ScopeDefine(n, name, value, constant) ==
  /\ n \in 1..Len(nodes)
  /\ nodes' = define(nodes, n, name, value, constant)
  /\ scopeErr' = "none"
  /\ UNCHANGED baseVars

\* an assignment (exec_assignment 439-440) executed with node n as the
\* current scope
ScopeSet(n, name, value) ==
  /\ n \in 1..Len(nodes)
  /\ LET r == set(nodes, n, name, value) IN
     /\ nodes' = r.nodes
     /\ scopeErr' = r.err
  /\ UNCHANGED baseVars

ScopeNext ==
  \/ \E parent \in 1..MaxScopes : ScopeNew(parent)
  \/ \E n \in 1..MaxScopes, name \in ScopeNames, value \in Values,
        constant \in BOOLEAN : ScopeDefine(n, name, value, constant)
  \/ \E n \in 1..MaxScopes, name \in ScopeNames, value \in Values :
        ScopeSet(n, name, value)

\* Interpreter.__init__ 87: the global scope, with nothing bound
ScopeInit ==
  /\ InitBase
  /\ fuel = 0
  /\ cap = [ents |-> 0, tasks |-> 0]
  /\ files = <<>>
  /\ evals = <<>>
  /\ scopes = <<>>
  /\ modFuel = 0
  /\ nodes = <<Scope(None)>>
  /\ scopeErr = "none"

ScopeSpec == ScopeInit /\ [][ScopeNext]_vars

Spec == Init /\ [][Next]_vars

\* ================================================================ claims
AliveKids(c) == {i \in 1..Len(entKids[c]) : ~entDead[entKids[c][i]]}
IsComposite(c, op) == entKind[c] = "Composite" /\ entOp[c] = op
StartKinds == {"Timer", "Process", "Connection", "Watcher"}

\* ---------------------------------------------------------------- C1
\* C1: death is monotonic.  In every step, whatever it is (a DIE statement,
\* complete() at the end of a branch task, a start task that ends or is
\* cancelled, an import of the same name, the teardown of run()), an entity
\* that is dead before the step is dead after it.
C1_DeathMonotonic ==
  [][\A e \in EntIds : entDead[e] => entDead'[e]]_vars

\* an entity that was dead when a DIE statement named it again, and run()
\* has since gone through its teardown
C1_Witness ==
  \E e \in EntIds :
    /\ entDead[e]
    /\ e \in redied
    /\ pc[MainTask] \in Finished

\* ---------------------------------------------------------------- C2
\* the EXECUTE task of the loop that task t is in has begun to run
Executing(t) == pc[t] = "join" /\ pc[taskJoin[t]] # "new"

\* C2: in a wait-mode loop (a) an EXECUTE task exists only for an entity that
\* is dead, (b) a loop never blocks on an entity that is dead when the loop
\* is entered: its EXECUTE task is spawned by the loop statement itself, and
\* (c) a loop whose entity is dead, at entry or later, eventually has its
\* EXECUTE running.
C2_WaitMode ==
  /\ [](\A x \in TaskIds : taskKind[x] = "exec" => entDead[taskEnt[x]])
  /\ [][\A t \in TaskIds :
          (pc[t] = "run" /\ pc'[t] = "waitDeath") => ~entDead[waitsOn'[t]]]_vars
  /\ \A t \in TaskIds :
       ((pc[t] = "waitDeath" /\ entDead[waitsOn[t]]) \/ pc[t] = "join")
         ~> Executing(t)

\* a loop that blocked on a live imported entity and whose EXECUTE runs now
C2_Witness ==
  \E t \in TaskIds :
    /\ Executing(t)
    /\ pc[taskJoin[t]] = "run"
    /\ waitsOn[t] = taskEnt[taskJoin[t]]
    /\ entKind[waitsOn[t]] \in StartKinds

\* ---------------------------------------------------------------- C3
\* C3: an And-composite is dead only if every child it was built from is
\* dead, an EXECUTE task for an And-composite exists only then, and once
\* every child is dead the composite eventually dies.
C3_AndComposite ==
  /\ [](\A c \in EntIds :
          (IsComposite(c, "AND") /\ entDead[c]) => AliveKids(c) = {})
  /\ [](\A x \in TaskIds :
          (taskKind[x] = "exec" /\ IsComposite(taskEnt[x], "AND"))
            => AliveKids(taskEnt[x]) = {})
  /\ \A c \in EntIds :
       (IsComposite(c, "AND") /\ AliveKids(c) = {}) ~> entDead[c]

\* the EXECUTE of ~ATH(A && L) runs, both children having died after the
\* composite was started
C3_Witness ==
  \E x \in TaskIds :
    /\ taskKind[x] = "exec"
    /\ pc[x] = "run"
    /\ IsComposite(taskEnt[x], "AND")
    /\ \A i \in 1..2 : entKind[entKids[taskEnt[x]][i]] \in StartKinds

\* ---------------------------------------------------------------- C4
\* C4: an Or-composite is dead only if one of its children is dead, once a
\* child is dead it eventually dies, and the step in which it dies changes
\* the alive flag of none of its children.
C4_OrComposite ==
  /\ [](\A c \in EntIds :
          (IsComposite(c, "OR") /\ entDead[c]) => AliveKids(c) # {1, 2})
  /\ [][\A c \in EntIds :
          (IsComposite(c, "OR") /\ ~entDead[c] /\ entDead'[c])
            => \A i \in 1..2 : entDead'[entKids[c][i]] = entDead[entKids[c][i]]]_vars
  /\ \A c \in EntIds :
       (IsComposite(c, "OR") /\ AliveKids(c) # {1, 2}) ~> entDead[c]

\* an Or-composite has died and one of its children is still alive
C4_Witness ==
  \E c \in EntIds :
    /\ IsComposite(c, "OR")
    /\ entDead[c]
    /\ Cardinality(AliveKids(c)) = 1

\* ---------------------------------------------------------------- C5
NotTasks == {s \in TaskIds : taskKind[s] = "composite"
                               /\ entOp[taskEnt[s]] = "NOT"}

\* C5: the task of a Not-composite that has reached its sleep(0) has its
\* next step scheduled in the loop's queue, whatever the state of the
\* operand; every Not-composite eventually dies; the step in which it dies
\* leaves the operand's alive flag as it was; and a loop waiting on a
\* Not-composite eventually runs its EXECUTE.
C5_NotComposite ==
  /\ [](\A s \in NotTasks : pc[s] = "sleep0" => InQueue(ready, Step(s)))
  /\ [][\A c \in EntIds :
          (IsComposite(c, "NOT") /\ ~entDead[c] /\ entDead'[c])
            => entDead'[entKids[c][1]] = entDead[entKids[c][1]]]_vars
  /\ \A c \in EntIds : IsComposite(c, "NOT") ~> entDead[c]
  /\ \A t \in TaskIds :
       (pc[t] = "waitDeath" /\ IsComposite(waitsOn[t], "NOT")) ~> Executing(t)

\* the EXECUTE of ~ATH(!E) runs while E is alive
C5_Witness ==
  \E x \in TaskIds :
    /\ taskKind[x] = "exec"
    /\ pc[x] = "run"
    /\ IsComposite(taskEnt[x], "NOT")
    /\ ~entDead[entKids[taskEnt[x]][1]]

C7_DieIdempotent ==
  /\ [](\A e \in EntIds :
          entKind[e] # "none" =>
            /\ die(die(Heap, e), e) = die(Heap, e)
            /\ entDead[e] => die(Heap, e) = Heap)
  /\ [][\A e \in EntIds :
          entDead[e] =>
            /\ entDead'[e]
            /\ deathEvent'[e] = deathEvent[e]
            /\ entTask[e] # None =>
                 taskCancels'[entTask[e]] = taskCancels[entTask[e]]]_vars

\* a DIE statement named an entity that was dead and whose host task had
\* not yet ended
C7_Witness ==
  \E e \in redied :
    /\ entTask[e] # None
    /\ ~TaskDone(entTask[e])
    /\ taskCancels[entTask[e]] = 1

\* ---------------------------------------------------------------- C8
BranchTasks == {b \in TaskIds : taskKind[b] = "branch"}
BranchEnded(e) ==
  \E b \in BranchTasks : taskEnt[b] = e /\ pc[b] \in {"done", "failed"}

\* C8: a branch-mode loop creates exactly one task, a branch task for the
\* entity the name is registered to; whenever a branch task has ended,
\* normally or with an exception of any kind, its Branch entity is dead,
\* complete and its death event is set; and a loop that waits for both
\* branches eventually runs its EXECUTE once both branch tasks have ended.
C8_BranchCompletes ==
  /\ [](\A b \in BranchTasks :
          pc[b] \in {"done", "failed"} =>
            /\ entDead[taskEnt[b]]
            /\ wait_for_death(taskEnt[b])
            /\ complete[taskEnt[b]])
  /\ [][\A t \in TaskIds :
          (pc[t] = "run" /\ pc'[t] = "yield") =>
            \E b \in TaskIds :
              /\ taskKind[b] = "none" /\ taskKind'[b] = "branch"
              /\ entKind[taskEnt'[b]] = "Branch"
              /\ \A o \in TaskIds \ {b} : taskKind'[o] = taskKind[o]]_vars
  /\ \A t \in TaskIds :
       (/\ pc[t] = "waitDeath"
        /\ IsComposite(waitsOn[t], "AND")
        /\ \A i \in 1..2 : BranchEnded(entKids[waitsOn[t]][i]))
         ~> Executing(t)

\* one branch ended with an exception, the other normally, and the EXECUTE
\* of a loop that was blocked on both of them runs
C8_Witness ==
  \E t \in TaskIds :
    /\ Executing(t)
    /\ pc[taskJoin[t]] = "run"
    /\ IsComposite(waitsOn[t], "AND")
    /\ waitsOn[t] = taskEnt[taskJoin[t]]
    /\ \E b1, b2 \in BranchTasks :
         /\ pc[b1] = "failed" /\ pc[b2] = "done"
         /\ entKids[waitsOn[t]] = <<taskEnt[b1], taskEnt[b2]>>

\* ---------------------------------------------------------------- C9
\* the task whose statement list the statements of task x belong to: an
\* EXECUTE task belongs to the task that awaits it
RECURSIVE Root(_)
Root(x) == IF taskKind[x] = "exec" THEN Root(taskParent[x]) ELSE x

\* C9: an exception is only ever raised in the task whose statement raised
\* it and in the tasks that await that task's EXECUTE: whenever a task, or
\* run() itself, has ended with an exception, the statement that raised it
\* belongs to that task.  The step in which a branch task ends with an
\* exception moves no other task.
C9_BranchErrorContained ==
  /\ [](\A t \in TaskIds :
          taskErr[t] # "none" => Root(errOrigin[t]) = Root(t))
  /\ [][\A b \in BranchTasks :
          (pc[b] # "failed" /\ pc'[b] = "failed") =>
            \A t \in TaskIds \ {b} :
              pc'[t] = pc[t] /\ taskErr'[t] = taskErr[t]]_vars

\* a branch task ended with an exception; its sibling, spawned before it,
\* and the spawner went on to their ends and run() returned normally
C9_Witness ==
  \E b1, b2 \in BranchTasks :
    /\ pc[b1] = "failed"
    /\ pc[b2] = "done"
    /\ pc[MainTask] = "done"
    /\ gathered = {b1, b2}

\* ---------------------------------------------------------------- C10
ExecTasks == {x \in TaskIds : taskKind[x] = "exec"}
Top(fr) == fr[Len(fr)]

\* C10: an EXECUTE task is a task that did not exist before the loop
\* created it, and from its creation until it is done the task that created
\* it is suspended in the await of that loop.  When the await ends, an
\* exception of the EXECUTE task is raised there: with an enclosing ATTEMPT
\* innermost, a Runtime or Condemn error moves the task into the SALVAGE
\* handler; with no enclosing frame, the task ends with that exception; and
\* with no exception the task goes on with its frames as they were.
C10_ExecuteJoined ==
  /\ [](\A x \in ExecTasks :
          ~TaskDone(x) =>
            (pc[taskParent[x]] = "join" /\ taskJoin[taskParent[x]] = x))
  /\ [][\A x \in TaskIds :
          (taskKind[x] # "exec" /\ taskKind'[x] = "exec") =>
            /\ taskKind[x] = "none"
            /\ pc'[x] = "new"
            /\ taskParent'[x] # x
            /\ pc'[taskParent'[x]] = "join"]_vars
  /\ [][\A t \in TaskIds :
          (pc[t] = "join" /\ pc'[t] # "join") =>
            LET x == taskJoin[t]
                k == taskErr[x] IN
            /\ TaskDone(x)
            /\ k = "none" => (pc'[t] = "run" /\ frames'[t] = frames[t])
            /\ (k \in {"Runtime", "Condemn"} /\ frames[t] # <<>>
                  /\ Top(frames[t]) = "attempt") =>
                 /\ pc'[t] = "run"
                 /\ frames'[t] = [frames[t] EXCEPT ![Len(frames[t])] = "salvage"]
            /\ (k # "none" /\ frames[t] = <<>>) =>
                 /\ pc'[t] \in {"failed", "gather"}
                 /\ taskErr'[t] = k]_vars

\* an EXECUTE task ended with an exception and the task that awaited it is
\* running the SALVAGE handler of the ATTEMPT around the loop
C10_Witness ==
  \E x \in ExecTasks :
    /\ pc[x] = "failed"
    /\ taskErr[x] \in {"Runtime", "Condemn"}
    /\ pc[taskParent[x]] = "run"
    /\ frames[taskParent[x]] = <<"salvage">>

\* ---------------------------------------------------------------- C11
\* the tasks the interpreter spawns and lists in _pending_tasks
SpawnedTasks ==
  {t \in TaskIds : taskKind[t] \in {"start", "composite", "branch"}}

\* C11: when run() has returned, normally or with an exception, every
\* entity in the registry is dead and every start, composite and branch
\* task has ended.
C11_TeardownComplete ==
  pc[MainTask] \in {"done", "failed"} =>
    /\ \A e \in RegisteredEnts : entDead[e]
    /\ \A t \in SpawnedTasks : TaskDone(t)

\* ---------------------------------------------------------------- C12
\* the tasks that host entity e: the task of its start(), the tasks that run
\* the body of a branch-mode loop on it
HostTasks(e) == {s \in SpawnedTasks : taskEnt[s] = e}

\* C12: die() cancels the task that hosts the entity, whatever the kind of
\* the entity: in the step in which an entity dies, each task that hosts it
\* and is not done gets a cancel request or ends; a task that has a cancel
\* request does nothing but end when it is resumed; and it eventually ends.
C12_DieCancelsHost ==
  /\ [][\A e \in EntIds : \A s \in HostTasks(e) :
          (~entDead[e] /\ entDead'[e] /\ ~TaskDone(s))
            => (taskCancels'[s] > taskCancels[s] \/ pc'[s] \in Finished)]_vars
  /\ [][\A s \in SpawnedTasks :
          (taskCancels[s] > 0 /\ ~TaskDone(s) /\ pc'[s] # pc[s])
            => pc'[s] \in Finished]_vars
  /\ \A s \in TaskIds :
       (s \in SpawnedTasks /\ taskCancels[s] > 0) ~> TaskDone(s)

\* ---------------------------------------------------------------- C13
\* C13: two branches that each wait on their own timer and then execute
\* `c = c + k` lose no update, whatever the order in which the timers
\* elapse and the tasks run.  (a) A task that has read c for an assignment
\* and not yet written it holds the loop; (b) the only step taken then is
\* that task's write of the value it computed, and no other task moves;
\* (c) so whenever no assignment is in progress, c is its initial value 0
\* plus the sum of the increments of the assignments executed.
Assigning == {t \in TaskIds : pc[t] = "assign"}
C13_NoLostUpdate ==
  /\ [](\A t \in Assigning : running = t)
  /\ [][\A t \in Assigning :
          /\ pc'[t] = "run"
          /\ counter' = held[t]
          /\ \A o \in TaskIds \ {t} : pc'[o] = pc[o]]_vars
  /\ [](Assigning = {} => counter = added)

\* both timers have elapsed before run() killed anything, both EXECUTE
\* clauses have run their assignment to the end, and c is 0 + 1 + 10
C13_Witness ==
  /\ counter = 11
  /\ pc[MainTask] \notin {"gather", "done", "failed"}
  /\ \A n \in {"A", "B"} :
       /\ entities[n] # None
       /\ \E x \in TaskIds : /\ taskKind[x] = "exec"
                             /\ taskEnt[x] = entities[n]
                             /\ pc[x] = "done"

\* ---------------------------------------------------------------- C14
\* the branch tasks that an uncaught error has ended
FailedBranches == {b \in TaskIds : taskKind[b] = "branch" /\ pc[b] = "failed"}

\* C14: when run() has returned, the error that propagated out of a branch
\* task has been printed on the diagnostic channel exactly once.
C14_BranchErrorReported ==
  pc[MainTask] \in {"done", "failed"} =>
    \A b \in FailedBranches : reports[b] = 1

\* ---------------------------------------------------------------- C15
Range(f) == {f[i] : i \in DOMAIN f}

\* the paths reachable from the paths of `frontier` through watcher imports
RECURSIVE ReachFrom(_, _)
ReachFrom(frontier, seen) ==
  IF frontier \subseteq seen THEN seen
  ELSE ReachFrom(UNION {Range(files[q]) : q \in frontier}, seen \cup frontier)

\* the files the main program reaches, and whether they form a cycle
Loaded == ReachFrom(Range(evals[1].program), {})
Cyclic == \E q \in Loaded : q \in ReachFrom(Range(files[q]), {})
NoRepeat(stack) ==
  \A i, j \in 1..Len(stack) : i # j => stack[i] # stack[j]
MainReturned == Len(evals) = 1 /\ evals[1].phase \in {"done", "failed"}

\* C15: module loading detects cycles and terminates.  No path is twice on
\* the import stack of an evaluator; at most one evaluator per file is
\* nested in the main one; the main program ends, and it ends with the
\* Runtime error "Circular import ..." exactly when the files it reaches
\* through watcher imports form a cycle.
C15_CircularImport ==
  /\ [](\A k \in 1..Len(evals) : NoRepeat(evals[k].import_stack))
  /\ [](Len(evals) <= Cardinality(Paths) + 1)
  /\ [](MainReturned =>
          /\ Cyclic => (evals[1].phase = "failed"
                          /\ evals[1].err = "Circular import")
          /\ ~Cyclic => (evals[1].phase = "done" /\ evals[1].err = "none"))
  /\ <>MainReturned

\* two files that import each other: the main program has ended with the
\* error that the innermost of three nested evaluators raised
C15_Witness ==
  /\ MainReturned
  /\ evals[1].err = "Circular import"
  /\ files["a"] = <<"b">>
  /\ files["b"] = <<"a">>
  /\ evals[1].program = files["a"]

\* ---------------------------------------------------------------- C16
\* C16: a child evaluator shares no state with its parent.  (a) While an
\* evaluator awaits the run of a child, no step changes its global scope,
\* its branch set, its registry or the exports of its watchers.  (b) The
\* step in which the child's run ends changes neither the parent's global
\* scope nor its branch set; it registers the watcher only if the child has
\* run its file to the end, killed its entities and awaited its tasks, and
\* then the watcher's exports are the child's global bindings; if the
\* child failed, the registry is unchanged.  (c) No other step registers a
\* watcher.
C16_ChildIsolated ==
  /\ [][\A k \in 1..(Len(evals) - 1) :
          Len(evals') > k =>
            /\ scopes'[evals[k].global_scope] = scopes[evals[k].global_scope]
            /\ evals'[k] = evals[k]]_vars
  /\ [][Len(evals') < Len(evals) =>
          LET k      == Len(evals')
              parent == evals[k]
              child  == evals[k + 1]
              path   == parent.program[parent.ip + 1] IN
          /\ scopes'[parent.global_scope] = scopes[parent.global_scope]
          /\ evals'[k].branch_entities = parent.branch_entities
          /\ IF evals'[k].ip = parent.ip + 1
             THEN /\ child.phase = "done"
                  /\ child.ip = Len(child.program)
                  /\ child.alive = {}
                  /\ child.pending = 0
                  /\ evals'[k].entities = parent.entities \cup {path}
                  /\ evals'[k].exports =
                       [parent.exports EXCEPT ![path] = scopes[child.global_scope]]
             ELSE /\ child.phase = "failed"
                  /\ evals'[k].entities = parent.entities
                  /\ evals'[k].exports = parent.exports]_vars
  /\ [][Len(evals') >= Len(evals) =>
          \A k \in 1..Len(evals) :
            /\ evals'[k].entities \cap Paths = evals[k].entities \cap Paths
            /\ evals'[k].exports = evals[k].exports
            /\ evals'[k].ip = evals[k].ip]_vars

\* the main program bound x to 1 and then imported a module that bound its
\* own x to 2: the watcher is registered, it exports x = 2 and the main
\* program's x is still 1
C16_Witness ==
  /\ Len(evals) = 1
  /\ evals[1].phase = "run"
  /\ scopes[evals[1].global_scope]["x"] = 1
  /\ \E q \in Paths : /\ q \in evals[1].entities
                       /\ evals[1].exports[q]["x"] = 2

\* ---------------------------------------------------------------- C17
\* the step is one in which an exception of kind k is raised in task t: by
\* a statement, by a DIE or a loop that names an unknown entity, or by the
\* await of an EXECUTE task that ended with it
Raises(t, k) ==
  \/ exec_raise(t, k)
  \/ /\ k = "Runtime"
     /\ \/ \E targets \in ErrorDieTargets :
             exec_die(t, targets) /\ kill_targets(Heap, targets, {}).err
        \/ \E expr \in ErrorWaitExprs :
             exec_ath_wait(t, expr) /\ resolve_entity_expr(expr, NextEnt - 1).err
  \/ JoinWake(t) /\ taskErr[taskJoin[t]] = k

\* the innermost frame of the given kind, 0 when there is none
InnermostFrame(fr, kind) ==
  IF \E i \in 1..Len(fr) : fr[i] = kind
  THEN CHOOSE i \in 1..Len(fr) :
         fr[i] = kind /\ \A j \in (i + 1)..Len(fr) : fr[j] # kind
  ELSE 0
Handlers(fr) == Cardinality({i \in 1..Len(fr) : fr[i] = "salvage"})

\* C17: ATTEMPT / SALVAGE runs its handler if and only if its body raises a
\* Condemn or a Runtime error.  A step in which such an error is raised in
\* a task inside the body of an ATTEMPT replaces the innermost ATTEMPT and
\* everything inside it by its handler; raised anywhere else it ends the
\* task.  A Bequeath starts no handler: it unwinds to the innermost rite
\* call, which returns, or ends the task when there is none.  The
\* debugger's quit starts no handler and stops at no frame: it ends the
\* task.  No other step starts a handler.
C17_AttemptSalvage ==
  /\ [][\A t \in TaskIds : \A k \in {"Runtime", "Condemn"} :
          Raises(t, k) =>
            LET i == InnermostFrame(frames[t], "attempt") IN
            IF i > 0
            THEN /\ pc'[t] = "run"
                 /\ frames'[t] = Append(SubSeq(frames[t], 1, i - 1), "salvage")
            ELSE /\ pc'[t] \in {"failed", "gather"}
                 /\ taskErr'[t] = k]_vars
  /\ [][\A t \in TaskIds :
          Raises(t, "Bequeath") =>
            LET i == InnermostFrame(frames[t], "rite") IN
            IF i > 0
            THEN /\ pc'[t] = "run"
                 /\ frames'[t] = SubSeq(frames[t], 1, i - 1)
            ELSE /\ pc'[t] \in {"failed", "gather"}
                 /\ taskErr'[t] = "Bequeath"
                 /\ frames'[t] = <<>>]_vars
  /\ [][\A t \in TaskIds :
          Raises(t, "Quit") =>
            /\ pc'[t] \in {"failed", "gather"}
            /\ taskErr'[t] = "Quit"
            /\ frames'[t] = <<>>]_vars
  /\ [][\A t \in TaskIds :
          Handlers(frames'[t]) > Handlers(frames[t]) =>
            \E k \in {"Runtime", "Condemn"} : Raises(t, k)]_vars

\* a BEQUEATH raised by the EXECUTE clause of a loop inside an ATTEMPT
\* inside a rite call: the task that executed the loop is back after the
\* rite call and no handler has run
C17_Witness ==
  \E x \in ExecTasks :
    /\ pc[x] = "failed"
    /\ taskErr[x] = "Bequeath"
    /\ pc[taskParent[x]] = "run"
    /\ frames[taskParent[x]] = <<>>

\* ---------------------------------------------------------------- C18
\* the scopes from n outwards that bind the name, and the nearest of them
\* (a scope is constructed after its parent)
Binders(n, name) == {m \in Enclosing(nodes, n) : nodes[m].variables[name] # None}
Nearest(n, name) == CHOOSE m \in Binders(n, name) : \A o \in Binders(n, name) : o <= m

\* C18: a Scope write touches exactly one node.  define(name) on node n
\* binds the name in n and changes nothing else: no other node, no other
\* name of n.  set(name) from node n writes the value in the nearest scope
\* from n outwards that binds the name and changes nothing else; when that
\* binding is a constant or when no such scope exists, it raises and every
\* node is as it was.
C18_ScopeWrites ==
  /\ [][\A n \in 1..Len(nodes) : \A name \in ScopeNames : \A value \in Values :
          \A constant \in BOOLEAN :
            ScopeDefine(n, name, value, constant) =>
              /\ nodes'[n].variables[name] = value
              /\ \A o \in ScopeNames \ {name} :
                   nodes'[n].variables[o] = nodes[n].variables[o]
              /\ nodes'[n].parent = nodes[n].parent
              /\ \A m \in 1..Len(nodes) : m # n => nodes'[m] = nodes[m]
              /\ Len(nodes') = Len(nodes)]_vars
  /\ [][\A n \in 1..Len(nodes) : \A name \in ScopeNames : \A value \in Values :
          ScopeSet(n, name, value) =>
            IF Binders(n, name) = {}
            THEN nodes' = nodes /\ scopeErr' = "Undefined variable"
            ELSE IF name \in nodes[Nearest(n, name)].constants
            THEN nodes' = nodes /\ scopeErr' = "Cannot reassign constant"
            ELSE /\ scopeErr' = "none"
                 /\ nodes' = [nodes EXCEPT
                                ![Nearest(n, name)].variables[name] = value]]_vars

\* x is a constant 1 in the global scope and 2 in a scope nested in it,
\* and a set of x from another nested scope has just failed
C18_Witness ==
  /\ Len(nodes) = 3
  /\ nodes[1].variables["x"] = 1
  /\ "x" \in nodes[1].constants
  /\ nodes[2].parent = 1
  /\ nodes[2].variables["x"] = 2
  /\ scopeErr = "Cannot reassign constant"

\* ---------------------------------------------------------------- C19
\* C19: bifurcate E[L, R] with E not in the registry raises a Runtime error
\* in the task that executes it and changes neither the registry nor the
\* branch set nor any entity.  With E in the registry it registers two new
\* live Branch entities under L and R, adds L and R to the branch set and
\* the task goes on.  In both cases no task is created and nothing is
\* scheduled.  A task that runs the body of a branch comes into being only
\* in a step that executes a ~ATH loop on the name of that branch.
C19_Bifurcate ==
  /\ [][\A t \in TaskIds : \A f \in BranchBifurcateForms :
          exec_bifurcate(t, f[1], f[2], f[3]) =>
            /\ taskKind' = taskKind
            /\ pending_tasks' = pending_tasks
            /\ IF entities[f[1]] = None
               THEN /\ taskErr'[t] = "Runtime"
                    /\ pc'[t] \in {"failed", "gather"}
                    /\ entities' = entities
                    /\ regOrder' = regOrder
                    /\ branch_entities' = branch_entities
                    /\ entKind' = entKind
               ELSE /\ pc'[t] = "run"
                    /\ ready' = ready
                    /\ branch_entities' = branch_entities \cup {f[2], f[3]}
                    /\ entities'[f[2]] # entities'[f[3]]
                    /\ \A n \in {f[2], f[3]} :
                         /\ entKind[entities'[n]] = "none"
                         /\ entKind'[entities'[n]] = "Branch"
                         /\ entName'[entities'[n]] = n
                         /\ ~entDead'[entities'[n]]
                    /\ \A n \in Names \ {f[2], f[3]} :
                         entities'[n] = entities[n]]_vars
  /\ [][\A b \in TaskIds :
          (taskKind[b] # "branch" /\ taskKind'[b] = "branch") =>
            \E t \in TaskIds : \E n \in {"L", "R"} :
              /\ exec_branch_mode(t, n)
              /\ taskEnt'[b] = entities[n]
              /\ pc'[b] = "new"]_vars

\* THIS has been bifurcated: L and R are live Branch entities and the main
\* task, which goes on, is the only task there is
C19_Witness ==
  /\ pc[MainTask] = "run"
  /\ \A t \in TaskIds \ {MainTask} : taskKind[t] = "none"
  /\ \A n \in {"L", "R"} :
       /\ n \in branch_entities
       /\ entities[n] # None
       /\ entKind[entities[n]] = "Branch"
       /\ ~entDead[entities[n]]

\* ---------------------------------------------------------------- C20
\* the milliseconds in one unit of a duration
UnitMs(unit) ==
  CASE unit = "ms" -> 1
    [] unit = "s"  -> 1000
    [] unit = "m"  -> 60000
    [] unit = "h"  -> 3600000

\* C20: import timer with a duration of less than 1 ms, in whatever unit
\* it is written, raises a Runtime error in the task that executes it (the
\* handler of the enclosing ATTEMPT runs, or the task ends): no entity is
\* constructed, the registry is as it was, no task is created and nothing
\* is appended to the pending tasks.  A duration of 1 ms or more constructs
\* and registers a Timer and creates its task.
C20_TimerMinimum ==
  [][\A t \in TaskIds : \A value \in DurationValues : \A unit \in DurationUnits :
       exec_import_timer(t, "A", value, unit) =>
         IF value * UnitMs(unit) < 1
         THEN /\ entKind' = entKind
              /\ entities' = entities
              /\ regOrder' = regOrder
              /\ taskKind' = taskKind
              /\ pending_tasks' = pending_tasks
              /\ IF frames[t] # <<>> /\ frames[t][Len(frames[t])] = "attempt"
                 THEN pc'[t] = "run" /\ Handlers(frames'[t]) > Handlers(frames[t])
                 ELSE IF \E i \in 1..Len(frames[t]) : frames[t][i] = "attempt"
                 THEN pc'[t] = "run"
                 ELSE pc'[t] \in {"failed", "gather"} /\ taskErr'[t] = "Runtime"
         ELSE /\ entities'["A"] # entities["A"]
              /\ entKind[entities'["A"]] = "none"
              /\ entKind'[entities'["A"]] = "Timer"
              /\ taskKind'[entTask'[entities'["A"]]] = "start"
              /\ entTask'[entities'["A"]] \in pending_tasks']_vars

\* an import of a timer failed inside an ATTEMPT whose handler is running:
\* no entity but THIS exists, no task but the main one
C20_Witness ==
  /\ pc[MainTask] = "run"
  /\ frames[MainTask] = <<"salvage">>
  /\ entities["A"] = None
  /\ \A e \in EntIds : entKind[e] # "none" => e = entities["THIS"]
  /\ \A t \in TaskIds \ {MainTask} : taskKind[t] = "none"

\* ------------------------------------------------ the current scope
\* Programs whose tasks call rites and run SALVAGE handlers that suspend:
\* the rites are defined at the top level, a task is made by a branch-mode
\* loop, a task suspends in a wait-mode loop on a timer of its own.
MaxCalls == 3
RiteTasks == 3
RiteStmts == 6

riteBase == <<entVars, regVars, pending_tasks, gathered, gpending, taskEnt,
              taskJoin, waitsOn, taskParent, taskCancels, taskErr, errOrigin,
              cap, scopeVars, reports, modVars, scopeErr, result, debugger,
              heap>>

\* call_rite 712-714 (kind "rite", the new scope's parent is the closure,
\* the global scope) and exec_attempt_salvage 482-484 (kind "salvage", the
\* parent is the current scope)
enter_scope(t, kind) ==
  /\ CanStmt(t)
  /\ fuel' = fuel - 1
  /\ Len(nodes) <= MaxCalls
  /\ frames' = [frames EXCEPT ![t] = Append(@, kind)]
  /\ old_scope' = [old_scope EXCEPT ![t] = Append(@, current_scope)]
  /\ nodes' = Append(nodes, Scope(IF kind = "rite" THEN 1 ELSE current_scope))
  /\ current_scope' = Len(nodes) + 1
  /\ UNCHANGED <<riteBase, taskKind, pc, loopVars, suspended_in>>

\* call_rite 727-728 and exec_attempt_salvage 488-489,
\* `self.current_scope = old_scope`
restore_scope(t) == old_scope[t][Len(old_scope[t])]

\* the body of the rite or of the handler has been executed
leave_scope(t) ==
  /\ Runs(t)
  /\ frames[t] # <<>>
  /\ frames' = [frames EXCEPT ![t] = SubSeq(@, 1, Len(@) - 1)]
  /\ current_scope' = restore_scope(t)
  /\ old_scope' = [old_scope EXCEPT ![t] = SubSeq(@, 1, Len(@) - 1)]
  /\ UNCHANGED <<riteBase, taskKind, pc, loopVars, fuel, nodes, suspended_in>>

\* exec_branch_mode 369-373: the task of a branch is created and the task
\* that executes the loop yields to it, `await asyncio.sleep(0)`
spawn_branch(t) ==
  /\ CanStmt(t)
  /\ fuel' = fuel - 1
  /\ FreeTasks # {}
  /\ taskKind' = [taskKind EXCEPT ![NextTask] = "branch"]
  /\ pc' = [pc EXCEPT ![t] = "yield"]
  /\ ready' = ready \o <<Step(NextTask), Step(t)>>
  /\ running' = None
  /\ suspended_in' = [suspended_in EXCEPT ![t] = current_scope]
  /\ UNCHANGED <<riteBase, frames, batch, nodes, current_scope, old_scope>>

\* exec_ath_loop 333-336: the task awaits the death of a timer
await_death(t) ==
  /\ CanStmt(t)
  /\ fuel' = fuel - 1
  /\ pc' = [pc EXCEPT ![t] = "wait"]
  /\ running' = None
  /\ suspended_in' = [suspended_in EXCEPT ![t] = current_scope]
  /\ UNCHANGED <<riteBase, taskKind, frames, ready, batch, nodes,
                 current_scope, old_scope>>

\* the timer a task awaits dies: Event.set schedules the task's next step
timer_dies(t) ==
  /\ running = None
  /\ batch = 0
  /\ pc[t] = "wait"
  /\ ~InQueue(ready, Step(t))
  /\ ready' = Append(ready, Step(t))
  /\ UNCHANGED <<riteBase, taskKind, pc, frames, batch, running, fuel, nodes,
                 riteVars>>

\* the loop runs the next step of a task: the task begins, or goes on
\* after the await that suspended it
resume(t) ==
  /\ Turn(Step(t))
  /\ taskKind[t] = "branch" \/ pc[t] # "new"
  /\ pc[t] \in {"new", "yield", "wait"}
  /\ ready' = Tail(ready)
  /\ pc' = [pc EXCEPT ![t] = "run"]
  /\ running' = t
  /\ UNCHANGED <<riteBase, taskKind, frames, fuel, nodes, riteVars>>

\* the task has executed its last statement
end_task(t) ==
  /\ Runs(t)
  /\ frames[t] = <<>>
  /\ pc' = [pc EXCEPT ![t] = "done"]
  /\ running' = None
  /\ UNCHANGED <<riteBase, taskKind, frames, ready, batch, fuel, nodes,
                 riteVars>>

RiteNext ==
  \/ RunStart
  \/ \E t \in TaskIds :
       \/ \E kind \in {"rite", "salvage"} : enter_scope(t, kind)
       \/ leave_scope(t)
       \/ spawn_branch(t)
       \/ await_death(t)
       \/ timer_dies(t)
       \/ resume(t)
       \/ end_task(t)

RiteInit ==
  /\ InitBase
  /\ files = <<>>
  /\ evals = <<>>
  /\ scopes = <<>>
  /\ modFuel = 0
  /\ nodes = <<Scope(None)>>
  /\ scopeErr = "none"
  /\ fuel = RiteStmts
  /\ cap = [ents |-> 1, tasks |-> RiteTasks]

RiteSpec == RiteInit /\ [][RiteNext]_vars

\* ------------------------------------------------ branches that outlive
\* Programs that bifurcate THIS, run branch-mode loops on L and kill both
\* branches
OrphanStmts == 9
OrphanTasks == 7

OrphanStatement ==
  \E t \in TaskIds :
    \/ exec_bifurcate(t, "THIS", "L", "R")
    \/ exec_branch_mode(t, "L")
    \/ exec_die(t, <<"L", "R">>)
    \/ Finish(t)

OrphanNext ==
  \/ RunStart
  \/ OrphanStatement
  \/ \E t \in TaskIds : StartUserTask(t) \/ YieldWake(t)
  \/ GatherStep
  \/ RunReturn

OrphanInit ==
  /\ InitBase
  /\ NoModules
  /\ fuel = OrphanStmts
  /\ cap = [ents |-> MaxEnt, tasks |-> OrphanTasks]

OrphanSpec == OrphanInit /\ [][OrphanNext]_vars

\* ---------------------------------------------------------------- C21
\* the value the stated order gives: THIS, then the scope chain, then the
\* builtin registry, then the entity registry for module watchers only
Resolved(ev, sc, name) ==
  IF name = "THIS" THEN Value("entity", "THIS", None)
  ELSE IF name \in DeclNames /\ sc[ev.global_scope][name] # None
  THEN Value("variable", name, sc[ev.global_scope][name])
  ELSE IF name \in BuiltinNames THEN Value("builtin", name, None)
  ELSE IF name \in ev.entities \cap Paths THEN Value("entity", name, None)
  ELSE Value("undefined", name, None)

\* C21: an identifier resolves as THIS, then in the scope chain, then as a
\* builtin, then as a module watcher of the entity registry; a name bound in
\* the scope resolves to that binding even when a builtin has the name, and
\* the name of an entity that is not a module is undefined.
C21_ResolutionOrder ==
  [][\A name \in ExprNames :
       exec_expr(name) => result' = Resolved(Innermost, scopes, name)]_vars

\* ---------------------------------------------------------------- C22
\* C22: every composite entity made while a ~ATH entity expression is
\* resolved is a value of the entity registry from its creation on.
C22_CompositeRegistered ==
  \A e \in EntIds :
    entKind[e] = "Composite" => \E n \in Names : entities[n] = e

\* ---------------------------------------------------------------- C23
\* C23: once step_hook has returned quit, no task executes a further user
\* statement, and the task that raises the quit signal does not go on
\* running: no ATTEMPT / SALVAGE around the statement catches it.
C23_QuitUnwinds ==
  [][/\ debugger.state = "QUIT" => ~DebugStatement
     /\ \A t \in TaskIds : exec_quit(t) => ~Runs(t)']_vars

\* ---------------------------------------------------------------- C24
\* the operand that decides node, and the calls its evaluation makes
RECURSIVE Deciding(_)
Deciding(node) ==
  IF node.type # "BinaryOp" THEN node.value
  ELSE IF is_truthy(Deciding(node.left)) = (node.operator = "AND")
  THEN Deciding(node.right)
  ELSE Deciding(node.left)

RECURSIVE Calls(_)
Calls(node) ==
  CASE node.type = "Literal" -> 0
    [] node.type = "CallExpr" -> 1
    [] node.type = "BinaryOp" ->
         Calls(node.left)
           + IF is_truthy(Deciding(node.left)) = (node.operator = "AND")
             THEN Calls(node.right) ELSE 0

\* C24: `a AND b` evaluates b only when a is truthy and otherwise returns a
\* itself, `a OR b` evaluates b only when a is falsy and otherwise returns a
\* itself; the side effects of a skipped operand do not occur.
C24_ShortCircuit ==
  [][\A node \in LogicExprs :
       exec_logic(node) => /\ result' = Deciding(node)
                           /\ counter' = counter + Calls(node)]_vars

\* `DEAD AND f()` has returned DEAD and f has not been called
C24_Witness ==
  /\ fuel = LogicStmts - 1
  /\ result = DEAD
  /\ counter = 0

\* ---------------------------------------------------------------- C25
\* C25: a call of APPEND, PREPEND, SLICE, CONCAT, SET or DELETE leaves the
\* items of every object as they were, and the collection it returns is an
\* object that did not exist before the call; an index assignment on an
\* object a call returned changes no object the call was given.
C25_NonMutating ==
  [][/\ \A c \in CollectionCalls(heap) :
          exec_call(c) =>
            /\ \A o \in 1..Len(heap) : heap'[o] = heap[o]
            /\ result'.kind = "ref" => result'.val \notin 1..Len(heap)
     /\ \A obj \in Refs(heap), index \in Indices, v \in Atoms(heap) :
          exec_index_assign(obj, index, v) =>
            \A i \in 1..Len(heap[obj.val].args) :
              heap'[heap[obj.val].args[i]] = heap[heap[obj.val].args[i]]]_vars

\* an item of an array that APPEND returned has been assigned, and the
\* array APPEND was given has another value there
C25_Witness ==
  \E o \in 1..Len(heap) :
    /\ heap[o].by = "APPEND"
    /\ result = Ref(o)
    /\ LET a == heap[o].args[1] IN
       /\ heap[a].items # <<>>
       /\ heap[o].items[1] # heap[a].items[1]

C27_BranchOutlivesEntity ==
  /\ [](\A b \in orphans : taskCancels[b] = 0 /\ pc[b] # "cancelled")
  /\ [](pc[MainTask] \in {"done", "failed"} =>
         \A b \in orphans : TaskDone(b))

\* ---------------------------------------------------------------- C28
\* C28: an entity whose registry entry a later import or a later bifurcate
\* has taken is dead, in the state the statement leaves and ever after:
\* the registry never drops a live entity.
C28_NoLiveEntityDropped ==
  /\ [](\A e \in EntIds : replacedBy[e] # "none" => entDead[e])
  /\ [][\A n \in UserNames :
          (entities[n] # None /\ entities'[n] # entities[n])
            => entDead'[entities[n]]]_vars

\* ---------------------------------------------------------------- C29
\* C29: an import statement that fails leaves the registry and the alive
\* flag of every entity as they were before the statement; in particular
\* a prior entity registered under the name is still alive.  (Stated for
\* the statements whose error a SALVAGE catches: the task goes on, and
\* neither run()'s teardown nor the end of a branch is part of the step.)
C29_FailedImportKeepsState ==
  [][\A t \in TaskIds, value \in DurationValues, unit \in DurationUnits :
       (/\ exec_import_timer(t, "A", value, unit)
        /\ below_minimum(duration_to_ms(value, unit))
        /\ pc'[t] = "run")
         => (entities' = entities /\ entDead' = entDead)]_vars

\* ---------------------------------------------------------------- C30
\* C30: a binding defined read-only, by ENTOMB or as the name of a rite,
\* keeps its value for as long as its scope exists, whatever assignments
\* and definitions of the name follow in that scope; and a name that BIRTH
\* has just defined is assignable.
C30_ReadOnlyBinding ==
  [][/\ \A n \in 1..Len(nodes), name \in ScopeNames :
          name \in nodes[n].constants
            => nodes'[n].variables[name] = nodes[n].variables[name]
     /\ \A n \in 1..Len(nodes), name \in ScopeNames, value \in Values :
          ScopeDefine(n, name, value, FALSE)
            => name \notin nodes'[n].constants]_vars

====
